---------------------------- MODULE Spec2Model ----------------------------
(***************************************************************************)
(* A model of the leaf compiler front-end and evaluator:                   *)
(*   - the tree-walking evaluator          (src/src/interpreter/runner.rs) *)
(*   - the bridged primitive table         (src/src/ir/bridge.rs)          *)
(*   - the type checker / overload lookup  (parser/irbuilder/checker.rs)   *)
(*   - the expression parser               (parser/ast/builder.rs)         *)
(* Each subsystem has its own specification over the shared variables.     *)
(***************************************************************************)
EXTENDS Integers, Sequences, FiniteSets, TLC

VARIABLES
    \* ---- evaluator (SpecEval) ----
    prog,        \* name of the program being linked / run
    input,       \* the Vec<Value> handed to Runner::start
    status,      \* "link" | "run" | "done" | "error" | "panic" | "idle"
    instructions,\* Runtime.instructions once linked
    stack,       \* native call stack: activations of run / if_expression / ...
    retval,      \* value returned by the activation that just finished
    result,      \* final Value of Runner::start, or the link error
    callDepth,   \* history: RunDepth at every FunctionCall frame rewrite
    \* ---- type checker and bridge (SpecCheck) ----
    job,         \* the request handed to the checker
    answer,      \* what the checker returned
    \* ---- parser (SpecParse) ----
    chunk,       \* the expression as written, before it is cut into tokens
    tokens,      \* the token stream handed to the AstBuilder
    parsed       \* what run_chunk returned

evalVars  == <<prog, input, status, instructions, stack, retval, result, callDepth>>
checkVars == <<job, answer>>
parseVars == <<chunk, tokens, parsed>>
vars == <<prog, input, status, instructions, stack, retval, result, callDepth,
          job, answer, chunk, tokens, parsed>>

\* ------------------------------------------------------------------------
\* Bounds of the model
\* ------------------------------------------------------------------------
\* arity of the tail-recursive function: its deepest run re-enters it this often
TailArity == 3
\* longest token stream of which every arrangement is parsed
MaxTokens == 4
\* most `elif` branches of an if expression that is parsed
MaxElif == 1
\* most `and` separators of a first statement that is parsed
MaxAnd == 1
\* most operators of an operator chain that is parsed
MaxOps == 2
\* most arguments written before a pipe
MaxArgs == 2
\* most fields of a record literal that is parsed
MaxFields == 2
\* most path segments of an import identifier
MaxSegments == 2
\* largest integer handed to a program as its parameter
MaxN == 3
\* most condition/then pairs of an If handed to the type checker
MaxBranches == 2
\* most entries of a list literal handed to the type checker
MaxEntries == 3
\* most parameter types at a call site handed to the overload lookup
MaxParams == 2

\* ------------------------------------------------------------------------
\* Small helpers
\* ------------------------------------------------------------------------
None == [t |-> "None"]

Front(s) == SubSeq(s, 1, Len(s) - 1)

\* ------------------------------------------------------------------------
\* Types (parser/type.rs)
\* ------------------------------------------------------------------------
TNothing == [t |-> "Nothing"]
TInt == [t |-> "Int"]
TFloat == [t |-> "Float"]
TBool == [t |-> "Bool"]
TGeneric(g) == [t |-> "Generic", g |-> g]
TList(inner) == [t |-> "List", of |-> inner]
TFunction(takes, gives) == [t |-> "Function", takes |-> takes, gives |-> gives]

\* ------------------------------------------------------------------------
\* Bridged primitive table (ir/bridge.rs)
\* ------------------------------------------------------------------------
Known(ty) == [n |-> "Known", ty |-> ty]
Matching(i) == [n |-> "Matching", i |-> i]
ListedMatching(i) == [n |-> "ListedMatching", i |-> i]
UnlistedMatching(i) == [n |-> "UnlistedMatching", i |-> i]

BridgedFunctionNotFound(ident) == [ok |-> FALSE, err |-> "BridgedFunctionNotFound", name |-> ident]

get_funcid_wrong_index(ident) ==
    CASE ident = "add" -> [ok |-> TRUE, id |-> 0, ty |-> Matching(0)]
      [] ident = "sub" -> [ok |-> TRUE, id |-> 1, ty |-> Matching(0)]
      [] ident = "mul" -> [ok |-> TRUE, id |-> 2, ty |-> Matching(0)]
      [] ident = "div" -> [ok |-> TRUE, id |-> 3, ty |-> Matching(0)]
      [] ident = "push_back" -> [ok |-> TRUE, id |-> 4, ty |-> Matching(1)]
      [] ident = "push_front" -> [ok |-> TRUE, id |-> 4, ty |-> Matching(1)]
      [] ident = "get" -> [ok |-> TRUE, id |-> 6, ty |-> UnlistedMatching(1)]
      [] ident = "len" -> [ok |-> TRUE, id |-> 7, ty |-> Known(TInt)]
      [] OTHER -> BridgedFunctionNotFound(ident)

get_funcid(ident) ==
    CASE ident = "add" -> [ok |-> TRUE, id |-> 0, ty |-> Matching(0)]
      [] ident = "sub" -> [ok |-> TRUE, id |-> 1, ty |-> Matching(0)]
      [] ident = "mul" -> [ok |-> TRUE, id |-> 2, ty |-> Matching(0)]
      [] ident = "div" -> [ok |-> TRUE, id |-> 3, ty |-> Matching(0)]
      [] ident = "push_back" -> [ok |-> TRUE, id |-> 4, ty |-> Matching(1)]
      [] ident = "push_front" -> [ok |-> TRUE, id |-> 5, ty |-> Matching(1)]
      [] ident = "get" -> [ok |-> TRUE, id |-> 6, ty |-> UnlistedMatching(1)]
      [] ident = "len" -> [ok |-> TRUE, id |-> 7, ty |-> Known(TInt)]
      [] OTHER -> BridgedFunctionNotFound(ident)

\* ------------------------------------------------------------------------
\* Runtime values and IR entities (ir)
\* ------------------------------------------------------------------------
VInt(n) == [t |-> "Int", v |-> n]
VBool(b) == [t |-> "Bool", v |-> b]
VNothing == [t |-> "Nothing"]
VList(vs) == [t |-> "List", v |-> vs]
VStruct(vs) == [t |-> "Struct", v |-> vs]
VFunction(entity, captured) == [t |-> "Function", body |-> entity, captured |-> captured]

Inlined(v) == [k |-> "Inlined", v |-> v]
Parameter(n) == [k |-> "Parameter", n |-> n]
Captured(n) == [k |-> "Captured", n |-> n]
FunctionCall(findex, params) == [k |-> "FunctionCall", idx |-> findex, args |-> params]
ParameterCall(paramid, params) == [k |-> "ParameterCall", idx |-> paramid, args |-> params]
CapturedCall(capid, params) == [k |-> "CapturedCall", idx |-> capid, args |-> params]
RustCall(index, params) == [k |-> "RustCall", idx |-> index, args |-> params]
IfExpression(branches, else) == [k |-> "IfExpression", branches |-> branches, els |-> else]
Branch(cond, eval) == [cond |-> cond, eval |-> eval]
FirstStatement(to_void, to_eval) == [k |-> "FirstStatement", to_void |-> to_void, to_eval |-> to_eval]
List(entries) == [k |-> "List", args |-> entries]
ConstructRecord(fields) == [k |-> "ConstructRecord", args |-> fields]
LambdaPointer(inner, to_capture) == [k |-> "LambdaPointer", inner |-> inner, to_capture |-> to_capture]
Unimplemented == [k |-> "Unimplemented"]
ParentParam(n) == [c |-> "ParentParam", n |-> n]
\* the AST form of a builtin call, before lowering resolved its name
BuiltinCall(name, params) == [k |-> "Builtin", name |-> name, args |-> params]

\* ------------------------------------------------------------------------
\* IR lowering of builtin calls (Call(Builtin(ident), args) -> RustCall)
\* ------------------------------------------------------------------------
RECURSIVE Lower(_), LowerAll(_)
LowerAll(es) ==
    IF es = <<>> THEN [ok |-> TRUE, ents |-> <<>>]
    ELSE LET h == Lower(Head(es)) IN
         IF ~h.ok THEN h
         ELSE LET t == LowerAll(Tail(es)) IN
              IF ~t.ok THEN t ELSE [ok |-> TRUE, ents |-> <<h.ent>> \o t.ents]

Lower(e) ==
    CASE e.k = "Builtin" ->
            LET f == get_funcid(e.name) IN
            IF ~f.ok THEN f
            ELSE LET a == LowerAll(e.args) IN
                 IF ~a.ok THEN a ELSE [ok |-> TRUE, ent |-> RustCall(f.id, a.ents)]
      [] e.k \in {"FunctionCall", "ParameterCall", "CapturedCall", "List", "ConstructRecord"} ->
            LET a == LowerAll(e.args) IN
            IF ~a.ok THEN a ELSE [ok |-> TRUE, ent |-> [e EXCEPT !.args = a.ents]]
      [] e.k = "IfExpression" ->
            LET cs == LowerAll([j \in 1..Len(e.branches) |-> e.branches[j].cond])
                es == LowerAll([j \in 1..Len(e.branches) |-> e.branches[j].eval])
                l  == Lower(e.els)
            IN IF ~cs.ok THEN cs ELSE IF ~es.ok THEN es ELSE IF ~l.ok THEN l
               ELSE [ok |-> TRUE,
                     ent |-> IfExpression([j \in 1..Len(e.branches) |->
                                              Branch(cs.ents[j], es.ents[j])], l.ent)]
      [] e.k = "FirstStatement" ->
            LET vs == LowerAll(e.to_void)
                l  == Lower(e.to_eval)
            IN IF ~vs.ok THEN vs ELSE IF ~l.ok THEN l
               ELSE [ok |-> TRUE, ent |-> FirstStatement(vs.ents, l.ent)]
      [] e.k = "LambdaPointer" ->
            LET l == Lower(e.inner) IN
            IF ~l.ok THEN l ELSE [ok |-> TRUE, ent |-> LambdaPointer(l.ent, e.to_capture)]
      [] OTHER -> [ok |-> TRUE, ent |-> e]

\* ------------------------------------------------------------------------
\* Bridged primitives at run time (eval_bridged)
\* ------------------------------------------------------------------------
eval_bridged(index, params) ==
    CASE index = 0 -> VInt(params[1].v + params[2].v)
      [] index = 1 -> VInt(params[1].v - params[2].v)
      [] index = 2 -> VInt(params[1].v * params[2].v)
      [] index = 3 -> VInt(params[1].v \div params[2].v)
      [] index = 4 -> VList(Append(params[1].v, params[2]))
      [] index = 5 -> VList(<<params[1]>> \o params[2].v)
      [] index = 6 -> params[2].v[params[1].v + 1]
      [] index = 7 -> VInt(Len(params[1].v))
      [] OTHER -> VNothing

\* ------------------------------------------------------------------------
\* The programs the evaluator is run on
\* ------------------------------------------------------------------------
\* f p1 .. pk = if p1 then 7 else f p2 .. pk true      (self call in tail position)
TailBody ==
    IfExpression(<<Branch(Parameter(0), Inlined(VInt(7)))>>,
                 FunctionCall(0, [j \in 1..TailArity |->
                                     IF j < TailArity THEN Parameter(j)
                                     ELSE Inlined(VBool(TRUE))]))

\* S1: fact n = if builtin:eq n 0 then 1 else builtin:mul n (fact (builtin:sub n 1))
FactBody ==
    IfExpression(<<Branch(BuiltinCall("eq", <<Parameter(0), Inlined(VInt(0))>>),
                          Inlined(VInt(1)))>>,
                 BuiltinCall("mul", <<Parameter(0),
                     FunctionCall(0, <<BuiltinCall("sub", <<Parameter(0), Inlined(VInt(1))>>)>>)>>))

\* apply f x = f x
ApplyBody == ParameterCall(0, <<Parameter(1)>>)
\* twice f = #(\x -> f (f x))
TwiceBody == LambdaPointer(CapturedCall(0, <<CapturedCall(0, <<Parameter(0)>>)>>),
                           <<ParentParam(0)>>)
\* \n -> builtin:add n 10
Add10 == LambdaPointer(BuiltinCall("add", <<Parameter(0), Inlined(VInt(10))>>), <<>>)
\* seq a b = first a and [b, a] and 99 then b
SeqBody == FirstStatement(<<Parameter(0), List(<<Parameter(1), Parameter(0)>>),
                            Inlined(VInt(99))>>, Parameter(1))

\* choose a b = if a then 1 elif b then 2 else 3
ChooseBody == IfExpression(<<Branch(Parameter(0), Inlined(VInt(1))),
                             Branch(Parameter(1), Inlined(VInt(2)))>>, Inlined(VInt(3)))

IntInputs(n) == [1..n -> {VInt(x) : x \in 0..MaxN}]

Programs ==
    [tail    |-> [instrs |-> <<TailBody>>, entry |-> TailBody,
                  inputs |-> [1..TailArity -> {VBool(TRUE), VBool(FALSE)}]],
     fact    |-> [instrs |-> <<FactBody>>, entry |-> FunctionCall(0, <<Inlined(VInt(5))>>),
                  inputs |-> {<<>>}],
     len     |-> [instrs |-> <<>>,
                  entry |-> BuiltinCall("len", <<List(<<Inlined(VInt(1)), Inlined(VInt(2)),
                                                        Inlined(VInt(3)), Inlined(VInt(4))>>)>>),
                  inputs |-> {<<>>}],
     closure |-> [instrs |-> <<ApplyBody>>,
                  entry |-> FunctionCall(0, <<Add10, Parameter(0)>>),
                  inputs |-> IntInputs(1)],
     twice   |-> [instrs |-> <<ApplyBody, TwiceBody>>,
                  entry |-> FunctionCall(0, <<FunctionCall(1, <<Add10>>), Parameter(0)>>),
                  inputs |-> IntInputs(1)],
     first   |-> [instrs |-> <<>>,
                  entry |-> FirstStatement(<<Inlined(VInt(99)), Inlined(VInt(100))>>,
                                           Inlined(VInt(7))),
                  inputs |-> {<<>>}],
     seq     |-> [instrs |-> <<SeqBody>>,
                  entry |-> FunctionCall(0, <<Parameter(1), Parameter(0)>>),
                  inputs |-> IntInputs(2)],
     capture |-> [instrs |-> <<ApplyBody>>,
                  entry |-> FunctionCall(0, <<LambdaPointer(
                               BuiltinCall("add", <<Parameter(0), Captured(0)>>),
                               <<ParentParam(0)>>), Inlined(VInt(1))>>),
                  inputs |-> IntInputs(1)],
     choose  |-> [instrs |-> <<>>, entry |-> ChooseBody,
                  inputs |-> [1..2 -> {VBool(TRUE), VBool(FALSE), VInt(1)}]],
     nil     |-> [instrs |-> <<>>, entry |-> List(<<>>), inputs |-> {<<>>}],
     record  |-> [instrs |-> <<>>,
                  entry |-> ConstructRecord(<<Parameter(0), Inlined(VInt(1))>>),
                  inputs |-> IntInputs(1)]]

ProgNames == DOMAIN Programs

\* ------------------------------------------------------------------------
\* The evaluator: Runner (interpreter/runner.rs)
\* ------------------------------------------------------------------------
\* One activation on the native stack.  fn names the Rust function, pc is
\* "loop" while it works and "tail" once it only waits for `return callee()`.
\* p0, c0 and launched are history: the params/captured the activation was
\* entered with and every (entity, params, captured) it started a Runner on.
Frame(fn, entity, params, captured) ==
    [fn |-> fn, entity |-> entity, params |-> params, captured |-> captured,
     pc |-> "loop", i |-> 0, buf |-> <<>>,
     p0 |-> params, c0 |-> captured, launched |-> <<>>]

Launch(entity, params, captured) == [entity |-> entity, params |-> params, captured |-> captured]

Top == stack[Len(stack)]
Running == status = "run" /\ stack # <<>>
Activations == {"run", "if_expression"}
RunDepth(stk) == Cardinality({j \in 1..Len(stk) : stk[j].fn \in Activations})

\* faulty variant: the Runner is given the frame's own buffers, which it empties
spawn_moved(f, entity, params, captured) ==
    Append([stack EXCEPT ![Len(stack)] =
               [f EXCEPT !.launched = Append(@, Launch(entity, params, captured)),
                         !.params = <<>>, !.captured = <<>>]],
           Frame("run", entity, params, captured))

\* Runner::spawn / self.run(): frame f starts a Runner on entity and waits for it
spawn(f, entity, params, captured) ==
    Append([stack EXCEPT ![Len(stack)] =
               [f EXCEPT !.launched = Append(@, Launch(entity, params, captured))]],
           Frame("run", entity, params, captured))

\* `return v`: the activation ends and hands v to its caller
Return(v) == /\ stack' = Front(stack)
             /\ retval' = v

UnchangedOthers == UNCHANGED <<job, answer, chunk, tokens, parsed>>
EvalFrame == UNCHANGED <<prog, input, instructions, result>> /\ UnchangedOthers

Panic == /\ status' = "panic"
         /\ UNCHANGED <<stack, retval, callDepth>>
         /\ EvalFrame

\* Linking: every builtin name of the program is resolved through get_funcid
Link ==
    /\ status = "link"
    /\ LET p  == Programs[prog]
           is == LowerAll(p.instrs)
           en == Lower(p.entry)
       IN IF is.ok /\ en.ok
          THEN /\ instructions' = is.ents
               /\ stack' = <<Frame("run", en.ent, input, <<>>)>>
               /\ status' = "run"
               /\ result' = result
          ELSE /\ status' = "error"
               /\ result' = IF ~is.ok THEN is ELSE en
               /\ UNCHANGED <<instructions, stack>>
    /\ UNCHANGED <<prog, input, retval, callDepth>>
    /\ UnchangedOthers

InRun(kind) == /\ Running /\ retval = None
               /\ Top.fn = "run" /\ Top.pc = "loop" /\ Top.entity.k = kind

RunInlined ==
    /\ InRun("Inlined")
    /\ Return(Top.entity.v)
    /\ UNCHANGED <<status, callDepth>> /\ EvalFrame

RunParameter ==
    /\ InRun("Parameter")
    /\ Return(Top.params[Top.entity.n + 1])
    /\ UNCHANGED <<status, callDepth>> /\ EvalFrame

RunCaptured ==
    /\ InRun("Captured")
    /\ Return(Top.captured[Top.entity.n + 1])
    /\ UNCHANGED <<status, callDepth>> /\ EvalFrame

\* `return self.handler(..)`: run keeps its activation and enters the handler
Enter(handler) ==
    /\ stack' = Append([stack EXCEPT ![Len(stack)].pc = "tail"],
                       Frame(handler, Top.entity, Top.params, Top.captured))
    /\ UNCHANGED <<status, retval, callDepth>> /\ EvalFrame

RunIfExpression == InRun("IfExpression") /\ Enter("if_expression")
RunFirstStatement == InRun("FirstStatement") /\ Enter("first_statement")
RunList == InRun("List") /\ Enter("list")
RunConstructRecord == InRun("ConstructRecord") /\ Enter("record")
RunRustCall == InRun("RustCall") /\ Enter("rust_call")

\* faulty variant: the closure takes the whole parameter buffer of the frame
RunLambdaPointer_whole_params ==
    /\ InRun("LambdaPointer")
    /\ Return(VFunction(Top.entity.inner, Top.params))
    /\ UNCHANGED <<status, callDepth>> /\ EvalFrame

RunLambdaPointer ==
    /\ InRun("LambdaPointer")
    /\ Return(VFunction(Top.entity.inner,
                        [j \in 1..Len(Top.entity.to_capture) |->
                            Top.params[Top.entity.to_capture[j].n + 1]]))
    /\ UNCHANGED <<status, callDepth>> /\ EvalFrame

\* eval_params: one Runner per argument, on clones of self.params / self.captured
TakesParams == /\ Running
               /\ Top.pc = "loop"
               /\ \/ Top.fn = "run" /\ Top.entity.k \in {"FunctionCall", "ParameterCall", "CapturedCall"}
                  \/ Top.fn = "rust_call"

EvalParamsSpawn ==
    /\ TakesParams /\ retval = None
    /\ Len(Top.buf) < Len(Top.entity.args)
    /\ stack' = spawn(Top, Top.entity.args[Len(Top.buf) + 1], Top.params, Top.captured)
    /\ UNCHANGED <<status, retval, callDepth>> /\ EvalFrame

\* faulty variant: every result is also written into the frame's own parameters
EvalParamsCollect_in_place ==
    /\ TakesParams /\ retval # None
    /\ stack' = [stack EXCEPT ![Len(stack)] =
                    [Top EXCEPT !.buf = Append(@, retval),
                                !.params = [m \in DOMAIN @ |->
                                               IF m = Len(Top.buf) + 1 THEN retval ELSE @[m]]]]
    /\ retval' = None
    /\ UNCHANGED <<status, callDepth>> /\ EvalFrame

EvalParamsCollect ==
    /\ TakesParams /\ retval # None
    /\ stack' = [stack EXCEPT ![Len(stack)].buf = Append(@, retval)]
    /\ retval' = None
    /\ UNCHANGED <<status, callDepth>> /\ EvalFrame

ParamsReady(fn, kind) ==
    /\ TakesParams /\ retval = None
    /\ Top.fn = fn /\ Top.entity.k = kind
    /\ Len(Top.buf) = Len(Top.entity.args)

\* FunctionCall: the frame is rewritten in place and the loop continues
RunFunctionCall ==
    /\ ParamsReady("run", "FunctionCall")
    /\ stack' = [stack EXCEPT ![Len(stack)] =
                    [Top EXCEPT !.params = Top.buf,
                                !.entity = instructions[Top.entity.idx + 1],
                                !.buf = <<>>]]
    /\ callDepth' = Append(callDepth, RunDepth(stack))
    /\ UNCHANGED <<status, retval>> /\ EvalFrame

\* ParameterCall / CapturedCall: `return self.spawn(&entity, evaluated_params, captured)`
CallValue(f) ==
    /\ f.t = "Function"
    /\ stack' = spawn([Top EXCEPT !.pc = "tail"], f.body, Top.buf, f.captured)
    /\ UNCHANGED <<status, retval, callDepth>> /\ EvalFrame

RunParameterCall ==
    /\ ParamsReady("run", "ParameterCall")
    /\ CallValue(Top.params[Top.entity.idx + 1])

RunCapturedCall ==
    /\ ParamsReady("run", "CapturedCall")
    /\ CallValue(Top.captured[Top.entity.idx + 1])

rust_call ==
    /\ ParamsReady("rust_call", "RustCall")
    /\ Return(eval_bridged(Top.entity.idx, Top.buf))
    /\ UNCHANGED <<status, callDepth>> /\ EvalFrame

InHandler(fn) == Running /\ Top.fn = fn

\* if_expression: conditions in order, each on a spawned Runner
IfCondSpawn ==
    /\ InHandler("if_expression") /\ Top.pc = "loop" /\ retval = None
    /\ Top.i < Len(Top.entity.branches)
    /\ stack' = spawn(Top, Top.entity.branches[Top.i + 1].cond, Top.params, Top.captured)
    /\ UNCHANGED <<status, retval, callDepth>> /\ EvalFrame

\* faulty variant: the last condition selects its branch whatever it yields
IfCondResult_last_taken ==
    /\ InHandler("if_expression") /\ Top.pc = "loop" /\ retval # None
    /\ stack' = IF retval = VBool(TRUE) \/ Top.i + 1 = Len(Top.entity.branches)
                THEN spawn([Top EXCEPT !.pc = "tail"],
                           Top.entity.branches[Top.i + 1].eval, Top.params, Top.captured)
                ELSE [stack EXCEPT ![Len(stack)].i = @ + 1]
    /\ retval' = None
    /\ UNCHANGED <<status, callDepth>> /\ EvalFrame

\* the condition came back: Bool(true) selects the branch, `return self.run()`
IfCondResult ==
    /\ InHandler("if_expression") /\ Top.pc = "loop" /\ retval # None
    /\ stack' = IF retval = VBool(TRUE)
                THEN spawn([Top EXCEPT !.pc = "tail"],
                           Top.entity.branches[Top.i + 1].eval, Top.params, Top.captured)
                ELSE [stack EXCEPT ![Len(stack)].i = @ + 1]
    /\ retval' = None
    /\ UNCHANGED <<status, callDepth>> /\ EvalFrame

IfElse ==
    /\ InHandler("if_expression") /\ Top.pc = "loop" /\ retval = None
    /\ Top.i = Len(Top.entity.branches)
    /\ stack' = spawn([Top EXCEPT !.pc = "tail"], Top.entity.els, Top.params, Top.captured)
    /\ UNCHANGED <<status, retval, callDepth>> /\ EvalFrame

\* first_statement: every to_void entry on a spawned Runner, result dropped
FirstSpawn ==
    /\ InHandler("first_statement") /\ Top.pc = "loop" /\ retval = None
    /\ Top.i < Len(Top.entity.to_void)
    /\ stack' = spawn(Top, Top.entity.to_void[Top.i + 1], Top.params, Top.captured)
    /\ UNCHANGED <<status, retval, callDepth>> /\ EvalFrame

FirstDiscard ==
    /\ InHandler("first_statement") /\ Top.pc = "loop" /\ retval # None
    /\ stack' = [stack EXCEPT ![Len(stack)].i = @ + 1]
    /\ retval' = None
    /\ UNCHANGED <<status, callDepth>> /\ EvalFrame

\* faulty variant: the value expression is run before the statements
FirstEval_first ==
    /\ InHandler("first_statement") /\ Top.pc = "loop" /\ retval = None
    /\ Top.i = 0
    /\ stack' = spawn([Top EXCEPT !.pc = "tail"], Top.entity.to_eval, Top.params, Top.captured)
    /\ UNCHANGED <<status, retval, callDepth>> /\ EvalFrame

\* self.entity = stmt.to_eval(); self.run()
FirstEval ==
    /\ InHandler("first_statement") /\ Top.pc = "loop" /\ retval = None
    /\ Top.i = Len(Top.entity.to_void)
    /\ stack' = spawn([Top EXCEPT !.pc = "tail"], Top.entity.to_eval, Top.params, Top.captured)
    /\ UNCHANGED <<status, retval, callDepth>> /\ EvalFrame

\* list: all but the last entry spawned, the last through self.run()
ListEmpty ==
    /\ InHandler("list") /\ Top.pc = "loop" /\ retval = None
    /\ Len(Top.entity.args) = 0
    /\ Panic

ListSpawn ==
    /\ InHandler("list") /\ Top.pc = "loop" /\ retval = None
    /\ Len(Top.buf) < Len(Top.entity.args) - 1
    /\ stack' = spawn(Top, Top.entity.args[Len(Top.buf) + 1], Top.params, Top.captured)
    /\ UNCHANGED <<status, retval, callDepth>> /\ EvalFrame

ListCollect ==
    /\ InHandler("list") /\ Top.pc = "loop" /\ retval # None
    /\ stack' = [stack EXCEPT ![Len(stack)].buf = Append(@, retval)]
    /\ retval' = None
    /\ UNCHANGED <<status, callDepth>> /\ EvalFrame

ListLast ==
    /\ InHandler("list") /\ Top.pc = "loop" /\ retval = None
    /\ Len(Top.entity.args) > 0
    /\ Len(Top.buf) = Len(Top.entity.args) - 1
    /\ stack' = spawn([Top EXCEPT !.pc = "last"], Top.entity.args[Len(Top.entity.args)],
                      Top.params, Top.captured)
    /\ UNCHANGED <<status, retval, callDepth>> /\ EvalFrame

ListWrap ==
    /\ InHandler("list") /\ Top.pc = "last" /\ retval # None
    /\ Return(VList(Append(Top.buf, retval)))
    /\ UNCHANGED <<status, callDepth>> /\ EvalFrame

\* record: every field on a spawned Runner
RecordSpawn ==
    /\ InHandler("record") /\ retval = None
    /\ Len(Top.buf) < Len(Top.entity.args)
    /\ stack' = spawn(Top, Top.entity.args[Len(Top.buf) + 1], Top.params, Top.captured)
    /\ UNCHANGED <<status, retval, callDepth>> /\ EvalFrame

RecordCollect ==
    /\ InHandler("record") /\ retval # None
    /\ stack' = [stack EXCEPT ![Len(stack)].buf = Append(@, retval)]
    /\ retval' = None
    /\ UNCHANGED <<status, callDepth>> /\ EvalFrame

RecordReturn ==
    /\ InHandler("record") /\ retval = None
    /\ Len(Top.buf) = Len(Top.entity.args)
    /\ Return(VStruct(Top.buf))
    /\ UNCHANGED <<status, callDepth>> /\ EvalFrame

\* `return callee(..)`: the waiting activation passes the value on unchanged
ReturnTail ==
    /\ Running /\ Top.pc = "tail" /\ retval # None
    /\ Return(retval)
    /\ UNCHANGED <<status, callDepth>> /\ EvalFrame

\* Runner::start returns
Finish ==
    /\ status = "run" /\ stack = <<>> /\ retval # None
    /\ status' = "done"
    /\ result' = retval
    /\ UNCHANGED <<prog, input, instructions, stack, retval, callDepth>>
    /\ UnchangedOthers

InitEval ==
    /\ prog \in ProgNames
    /\ input \in Programs[prog].inputs
    /\ status = "link"
    /\ instructions = <<>>
    /\ stack = <<>>
    /\ retval = None
    /\ result = None
    /\ callDepth = <<>>
    /\ job = None /\ answer = None
    /\ chunk = None /\ tokens = <<>> /\ parsed = None

NextEval ==
    \/ Link
    \/ RunInlined \/ RunParameter \/ RunCaptured \/ RunLambdaPointer
    \/ RunIfExpression \/ RunFirstStatement \/ RunList \/ RunConstructRecord \/ RunRustCall
    \/ EvalParamsSpawn \/ EvalParamsCollect
    \/ RunFunctionCall \/ RunParameterCall \/ RunCapturedCall \/ rust_call
    \/ IfCondSpawn \/ IfCondResult \/ IfElse
    \/ FirstSpawn \/ FirstDiscard \/ FirstEval
    \/ ListEmpty \/ ListSpawn \/ ListCollect \/ ListLast \/ ListWrap
    \/ RecordSpawn \/ RecordCollect \/ RecordReturn
    \/ ReturnTail \/ Finish

SpecEval == InitEval /\ [][NextEval]_vars

\* ------------------------------------------------------------------------
\* Claims about the evaluator
\* ------------------------------------------------------------------------
\* C1: self-recursion in tail position runs in constant native stack: in the
\* program f p1..pk = if p1 then 7 else f p2..pk true, every re-entry of f
\* (the FunctionCall frame rewrite) happens at the same number of nested
\* run / if_expression activations, however often f has re-entered itself.
C1_ConstantStack ==
    prog = "tail" => \A a, b \in DOMAIN callDepth : callDepth[a] = callDepth[b]

FirstFrames == {j \in 1..Len(stack) : stack[j].fn = "first_statement"}

FirstInOrder(f) ==
    LET stmts == f.entity.to_void
        n == Len(f.launched)
    IN /\ n <= Len(stmts) + 1
       /\ \A m \in 1..n :
             f.launched[m] = Launch(IF m <= Len(stmts) THEN stmts[m] ELSE f.entity.to_eval,
                                    f.p0, f.c0)
       /\ f.i <= n /\ n <= f.i + 1
       /\ (f.pc = "tail") = (n = Len(stmts) + 1)
       /\ f.pc = "tail" => f.i = Len(stmts)

FirstReturning == Running /\ Top.fn = "first_statement" /\ Top.pc = "tail" /\ retval # None

\* C2: FirstStatement(stmts, eval) runs every entry of stmts exactly once, left
\* to right, each finished before the next and before eval starts, all under
\* the params/captured the frame was entered with; the results of stmts are
\* dropped and the value first_statement returns is the value eval returned.
C2_FirstStatement ==
    /\ [](\A j \in FirstFrames : FirstInOrder(stack[j]))
    /\ [][FirstReturning => (retval' = retval /\ stack' = Front(stack))]_vars
    /\ []((prog = "first" /\ status = "done") => result = VInt(7))
    /\ []((prog = "seq" /\ status = "done") => result = input[1])

C2_Witness ==
    /\ prog = "seq" /\ FirstReturning
    /\ Len(Top.launched) = Len(Top.entity.to_void) + 1
    /\ Top.p0 = <<input[2], input[1]>>
    /\ retval = input[1] /\ input[1] # input[2]

\* C3: scenario S1, fact 5 with fact n = if builtin:eq n 0 then 1 else
\* builtin:mul n (fact (builtin:sub n 1)), links (every builtin name it uses
\* resolves to a bridged primitive) and evaluates to Int(120).
C3_S1_Factorial ==
    (prog = "fact" /\ status \notin {"link", "run"})
        => (status = "done" /\ result = VInt(120))

\* ========================================================================
\* Type checker and overload lookup (parser/irbuilder/checker.rs)
\* ========================================================================
PRELUDE_FID == 0

Ok(ty) == [ok |-> TRUE, ty |-> ty]
CheckPanic(msg) == [ok |-> FALSE, err |-> "panic", msg |-> msg]
ListEntryTypeMismatch(got, want, i) ==
    [ok |-> FALSE, err |-> "ListEntryTypeMismatch", got |-> got, want |-> want, index |-> i]
\* fault.to_err(token.source_index): the fault with the token it points at
to_err(fault, token) == fault @@ [at |-> token]

\* tokens as the checker sees them
TkInlined(kind) == [k |-> "Inlined", ty |-> kind]
TkIf(branches, else_branch) == [k |-> "IfExpression", branches |-> branches, else_branch |-> else_branch]
TkList(entries) == [k |-> "List", entries |-> entries]
TkFirst(entries) == [k |-> "FirstStatement", entries |-> entries]

RECURSIVE type_check(_, _), type_check_if(_, _, _, _), type_check_list(_, _, _, _),
          type_check_first(_, _, _)

\* faulty variant: the else branch is not compared with the branches' type
type_check_else_unchecked(expr, source, expect_type) ==
    LET ev == type_check(expr.else_branch, source) IN
    IF ~ev.ok THEN ev ELSE Ok(expect_type.ty)

\* checker.rs:127-136, after the loop over the branches
type_check_else(expr, source, expect_type) ==
    LET ev == type_check(expr.else_branch, source) IN
    IF ~ev.ok THEN ev
    ELSE IF expect_type.some /\ ev.ty # expect_type.ty
         THEN CheckPanic("Branches have different types")
         ELSE IF expect_type.some THEN Ok(expect_type.ty)
              ELSE CheckPanic("unwrap on None")

\* checker.rs:107-126, the loop over (cond, eval), from branch j on
type_check_if(expr, source, j, expect_type) ==
    IF j > Len(expr.branches) THEN type_check_else(expr, source, expect_type)
    ELSE LET cv == type_check(expr.branches[j].cond, source) IN
         IF ~cv.ok THEN cv
         ELSE IF cv.ty # TBool THEN CheckPanic("Condition must result in true or false")
         ELSE LET ev == type_check(expr.branches[j].eval, source) IN
              IF ~ev.ok THEN ev
              ELSE IF expect_type.some
                   THEN IF ev.ty # expect_type.ty
                        THEN CheckPanic("Branches have different types")
                        ELSE type_check_if(expr, source, j + 1, expect_type)
                   ELSE type_check_if(expr, source, j + 1, [some |-> TRUE, ty |-> ev.ty])

\* faulty variant: the mismatch is reported with the two types exchanged
type_check_list_swapped(entries, source, j, of_t) ==
    IF j > Len(entries)
    THEN Ok(TList(IF of_t.some THEN of_t.ty ELSE TGeneric(0)))
    ELSE LET ty == type_check(entries[j], source) IN
         IF ~ty.ok THEN ty
         ELSE IF of_t.some
              THEN IF of_t.ty # ty.ty
                   THEN to_err(ListEntryTypeMismatch(of_t.ty, ty.ty, j - 1), entries[j])
                   ELSE type_check_list(entries, source, j + 1, of_t)
              ELSE type_check_list(entries, source, j + 1, [some |-> TRUE, ty |-> ty.ty])

\* checker.rs:139-153, the loop over the entries, from entry j on (0-based index j-1)
type_check_list(entries, source, j, of_t) ==
    IF j > Len(entries)
    THEN Ok(TList(IF of_t.some THEN of_t.ty ELSE TGeneric(0)))
    ELSE LET ty == type_check(entries[j], source) IN
         IF ~ty.ok THEN ty
         ELSE IF of_t.some
              THEN IF of_t.ty # ty.ty
                   THEN to_err(ListEntryTypeMismatch(ty.ty, of_t.ty, j - 1), entries[j])
                   ELSE type_check_list(entries, source, j + 1, of_t)
              ELSE type_check_list(entries, source, j + 1, [some |-> TRUE, ty |-> ty.ty])

\* checker.rs:44-49
type_check_first(entries, source, j) ==
    LET ty == type_check(entries[j], source) IN
    IF j = Len(entries) \/ ~ty.ok THEN ty
    ELSE type_check_first(entries, source, j + 1)

NoType == [some |-> FALSE]

type_check(token, source) ==
    CASE token.k = "Inlined" ->
            Ok(CASE token.ty = "Int" -> TInt
                 [] token.ty = "Float" -> TFloat
                 [] token.ty = "Bool" -> TBool
                 [] OTHER -> TNothing)
      [] token.k = "FirstStatement" -> type_check_first(token.entries, source, 1)
      [] token.k = "IfExpression" -> type_check_if(token, source, 1, NoType)
      [] token.k = "List" -> type_check_list(token.entries, source, 1, NoType)
      [] OTHER -> CheckPanic("Cannot discover type")

\* ------------------------------------------------------------------------
\* Generic unification (generics: generic_search) and Type::decoded
\* ------------------------------------------------------------------------
\* Generics: the bindings g := type made so far, in the order they were made
GenericsEmpty == <<>>
Bound(gens, g) == \E j \in 1..Len(gens) : gens[j].g = g
Lookup(gens, g) == gens[CHOOSE j \in 1..Len(gens) : gens[j].g = g].ty

RECURSIVE unify(_, _, _), unify_all(_, _, _, _), decoded(_, _)
unify(declared, actual, gens) ==
    CASE declared.t = "Generic" ->
            IF Bound(gens, declared.g)
            THEN [ok |-> Lookup(gens, declared.g) = actual, gens |-> gens]
            ELSE [ok |-> TRUE, gens |-> Append(gens, [g |-> declared.g, ty |-> actual])]
      [] declared.t = "List" ->
            IF actual.t = "List" THEN unify(declared.of, actual.of, gens)
            ELSE [ok |-> FALSE, gens |-> gens]
      [] OTHER -> [ok |-> declared = actual, gens |-> gens]

unify_all(declared, actual, j, gens) ==
    IF j > Len(declared) THEN [ok |-> TRUE, gens |-> gens]
    ELSE LET u == unify(declared[j], actual[j], gens) IN
         IF ~u.ok THEN u ELSE unify_all(declared, actual, j + 1, u.gens)

\* every (funcid, generics) a generic search may answer with
generic_search(variants, params) ==
    {[funcid |-> v.funcid, generics |-> unify_all(v.params, params, 1, GenericsEmpty).gens] :
        v \in {w \in variants : /\ Len(w.params) = Len(params)
                                /\ unify_all(w.params, params, 1, GenericsEmpty).ok}}

\* type.rs:98-112
decoded(ty, generics) ==
    CASE ty.t = "Generic" -> IF Bound(generics, ty.g) THEN Lookup(generics, ty.g) ELSE ty
      [] ty.t = "List" -> TList(decoded(ty.of, generics))
      [] ty.t = "Function" ->
            TFunction([j \in 1..Len(ty.takes) |-> decoded(ty.takes[j], generics)],
                      decoded(ty.gives, generics))
      [] OTHER -> ty

\* ------------------------------------------------------------------------
\* The module table (parser/leafmod.rs: ParseModule)
\* ------------------------------------------------------------------------
Fn(name, params, returns) == [name |-> name, params |-> params, returns |-> returns]

\* function_ids: name -> (parameter types -> function id), from the functions
ParseModule(functions, imports) ==
    [functions |-> functions,
     imports |-> imports,
     function_ids |->
        [name \in {functions[j].name : j \in 1..Len(functions)} |->
            {[params |-> functions[j].params, funcid |-> j - 1] :
                j \in {m \in 1..Len(functions) : functions[m].name = name}}]]

\* module 0 is the prelude, module 1 the program, module 2 what it imports as util
Modules ==
    <<ParseModule(<<Fn("id", <<TGeneric(0)>>, TGeneric(0)),
                    Fn("push_back", <<TList(TGeneric(0)), TGeneric(0)>>, TList(TGeneric(0))),
                    Fn("add", <<TInt, TInt>>, TInt)>>,
                  <<>>),
      ParseModule(<<Fn("f", <<TGeneric(0)>>, TGeneric(0)),
                    Fn("f", <<TInt>>, TBool),
                    Fn("f", <<TGeneric(0), TGeneric(0)>>, TList(TGeneric(0))),
                    Fn("f", <<TGeneric(0), TGeneric(1)>>, TGeneric(1)),
                    Fn("g", <<TBool>>, TInt),
                    Fn("add", <<TBool, TBool>>, TBool)>>,
                  [util |-> 2]),
      ParseModule(<<Fn("h", <<TInt>>, TInt),
                    Fn("h", <<TList(TGeneric(0))>>, TGeneric(0))>>,
                  <<>>)>>

Module(fid) == Modules[fid + 1]

FunctionNotFound(name, fid) == [ok |-> FALSE, err |-> "FunctionNotFound", name |-> name, fid |-> fid]
FunctionVariantNotFound(name, params, fid) ==
    [ok |-> FALSE, err |-> "FunctionVariantNotFound", name |-> name, params |-> params, fid |-> fid]
ModuleNotImported(name) == [ok |-> FALSE, err |-> "ModuleNotImported", name |-> name]
Found(funcid, fid, generics) == [ok |-> TRUE, funcid |-> funcid, fid |-> fid, generics |-> generics]

\* faulty variant: checker.rs:201-209 with the generic search tried before the exact match
match_variants_generic_first(variants, params, funcname, fid) ==
    LET generic == generic_search(variants, params)
        exact == {v \in variants : v.params = params}
    IN IF generic # {} THEN {Found(g.funcid, fid, g.generics) : g \in generic}
       ELSE IF exact # {} THEN {Found(v.funcid, fid, GenericsEmpty) : v \in exact}
       ELSE {FunctionVariantNotFound(funcname, params, fid)}

\* checker.rs:201-215: exact match, else generic match, else FunctionVariantNotFound
match_variants(variants, params, funcname, fid) ==
    LET exact == {v \in variants : v.params = params} IN
    IF exact # {} THEN {Found(v.funcid, fid, GenericsEmpty) : v \in exact}
    ELSE LET generic == generic_search(variants, params) IN
         IF generic # {} THEN {Found(g.funcid, fid, g.generics) : g \in generic}
         ELSE {FunctionVariantNotFound(funcname, params, fid)}

\* checker.rs:160-216; the set of answers the lookup may give (the order a
\* generic search walks the variants in is not fixed)
RECURSIVE find_matching_function(_, _, _)
find_matching_function(self_fid, ident, params) ==
    LET qualified == Len(ident) # 1
        imports == Module(self_fid).imports
    IN IF qualified /\ ident[1] \notin DOMAIN imports
       THEN {ModuleNotImported(ident[1])}
       ELSE LET fid == IF qualified THEN imports[ident[1]] ELSE self_fid
                funcname == IF qualified THEN ident[2] ELSE ident[1]
                module == Module(fid)
            IN IF funcname \notin DOMAIN module.function_ids
               THEN IF fid = self_fid /\ fid # PRELUDE_FID
                    THEN {IF a.ok THEN a
                          ELSE IF a.err = "FunctionNotFound"
                               THEN FunctionNotFound(a.name, fid)
                               ELSE a :
                            a \in find_matching_function(PRELUDE_FID, <<funcname>>, params)}
                    ELSE {FunctionNotFound(funcname, self_fid)}
               ELSE match_variants(module.function_ids[funcname], params, funcname, fid)

\* checker.rs:218-236: the declared return type of the variant whose parameter
\* types are exactly params; every index of the code that misses is a panic
find_return_type(fid, params, t) ==
    IF t.k # "Identifier" THEN CheckPanic("not implemented")
    ELSE LET me == Module(fid)
             ident == t.ident
             qualified == Len(ident) # 1
         IN IF qualified /\ ident[1] \notin DOMAIN me.imports
            THEN CheckPanic("no entry found for key")
            ELSE LET newme == IF qualified THEN Module(me.imports[ident[1]]) ELSE me
                     name == ident[Len(ident)]
                     exact == IF name \in DOMAIN newme.function_ids
                              THEN {v \in newme.function_ids[name] : v.params = params}
                              ELSE {}
                 IN IF exact = {} THEN CheckPanic("no entry found for key")
                    ELSE Ok(newme.functions[(CHOOSE v \in exact : TRUE).funcid + 1].returns)

\* the type of a call: the resolved variant's return type with its generics applied
type_check_function_source(self_fid, ident, params) ==
    {IF a.ok THEN Ok(decoded(Module(a.fid).functions[a.funcid + 1].returns, a.generics))
     ELSE a : a \in find_matching_function(self_fid, ident, params)}

\* the return type a bridged primitive's NaiveType gives for the argument types
naive_return(naive, params) ==
    CASE naive.n = "Known" -> Ok(naive.ty)
      [] naive.i >= Len(params) -> CheckPanic("index out of bounds")
      [] naive.n = "Matching" -> Ok(params[naive.i + 1])
      [] naive.n = "ListedMatching" -> Ok(TList(params[naive.i + 1]))
      [] naive.n = "UnlistedMatching" ->
            IF params[naive.i + 1].t = "List" THEN Ok(params[naive.i + 1].of)
            ELSE CheckPanic("not a list")

rust_call_type(name, params) ==
    LET f == get_funcid(name) IN
    IF ~f.ok THEN f ELSE naive_return(f.ty, params)

\* ------------------------------------------------------------------------
\* Calls and their parameter-type cells (checker.rs:50-86)
\* ------------------------------------------------------------------------
\* Parameterized(entry, params, p_types): cell names the RefCell p_types
TkParameterized(entry, params, cell) ==
    [k |-> "Parameterized", entry |-> entry, params |-> params, cell |-> cell]
TkIdentifier(ident) == [k |-> "Identifier", ident |-> ident]
TkRustCall(ty) == [k |-> "RustCall", ty |-> ty]

\* a RefCell<Vec<Type>>: not borrowed, borrowed by a RefMut, or borrowed by a Ref
FreeCell == [borrow |-> "free", types |-> <<>>]
\* the cells of a body, and what each re-entry on a borrowed cell saw and returned
Cells(n) == [cells |-> [c \in 1..n |-> FreeCell], seen |-> <<>>]

RECURSIVE type_check_cell(_, _, _, _), gather_params(_, _, _, _, _),
          type_check_callee(_, _, _, _, _)

\* checker.rs:64-68: each argument's type is pushed through the RefMut
gather_params(token, source, st, fn, j) ==
    IF j > Len(token.params) THEN [r |-> Ok(TNothing), st |-> st]
    ELSE LET a == type_check_cell(token.params[j], source, st, fn) IN
         IF ~a.r.ok THEN a
         ELSE gather_params(token, source,
                            [a.st EXCEPT !.cells[token.cell].types = Append(@, a.r.ty)],
                            fn, j + 1)

\* type_check_function_source: the callee is resolved and, when it is the
\* function fn whose body is at hand, its body is checked
type_check_callee(self_fid, ident, params, st, fn) ==
    LET a == CHOOSE x \in find_matching_function(self_fid, ident, params) : TRUE IN
    IF ~a.ok THEN [r |-> a, st |-> st]
    ELSE LET callee == [fid |-> a.fid, funcid |-> a.funcid]
             returns == Ok(decoded(Module(a.fid).functions[a.funcid + 1].returns, a.generics))
         IN IF callee # fn.source THEN [r |-> returns, st |-> st]
            ELSE LET b == type_check_cell(fn.body, callee, st, fn) IN
                 IF ~b.r.ok THEN b ELSE [r |-> returns, st |-> b.st]

\* checker.rs:50-86 with the borrow state of p_types
type_check_cell(token, source, st, fn) ==
    IF token.k # "Parameterized" THEN [r |-> type_check(token, source), st |-> st]
    ELSE LET c == st.cells[token.cell] IN
    IF c.borrow # "free"
    THEN \* try_borrow_mut failed; p_types.borrow() panics while a RefMut is alive
         LET r == IF c.borrow = "mut" THEN CheckPanic("already mutably borrowed")
                  ELSE find_return_type(source.fid, c.types, token.entry)
         IN [r |-> r,
             st |-> [st EXCEPT !.seen = Append(@, [borrow |-> c.borrow, entry |-> token.entry,
                                                   types |-> c.types, r |-> r])]]
    ELSE LET held == [st EXCEPT !.cells[token.cell].borrow = "mut"]
             g == IF c.types = <<>> THEN gather_params(token, source, held, fn, 1)
                  ELSE [r |-> Ok(TNothing), st |-> held]
         IN IF ~g.r.ok THEN g
            ELSE IF token.entry.k = "RustCall"
                 THEN [r |-> Ok(token.entry.ty),
                       st |-> [g.st EXCEPT !.cells[token.cell].borrow = "free"]]
                 ELSE LET shared == [g.st EXCEPT !.cells[token.cell].borrow = "shared"]
                          d == type_check_callee(source.fid, token.entry.ident,
                                                 shared.cells[token.cell].types, shared, fn)
                      IN IF ~d.r.ok THEN d
                         ELSE [r |-> d.r,
                               st |-> [d.st EXCEPT !.cells[token.cell].borrow = "free"]]

\* ------------------------------------------------------------------------
\* Module discovery (parser/leafmod.rs)
\* ------------------------------------------------------------------------
\* A string that names a path is the sequence of its `/`-separated segments,
\* each the sequence of the pieces pushed onto it; a PathBuf is the sequence of
\* its components below the filesystem root.

\* path.join("/")
StrJoin(path) == IF path = <<>> THEN <<<<>>>> ELSE [i \in 1..Len(path) |-> <<path[i]>>]
\* String::push('/')
StrPushSlash(str) == Append(str, <<>>)
\* String::push_str(piece)
StrPushStr(str, piece) == [str EXCEPT ![Len(str)] = Append(@, piece)]

\* the string starts with `/`
IsAbsolute(str) == Len(str) > 1 /\ str[1] = <<>>
Components(str) == SelectSeq(str, LAMBDA seg : seg # <<>>)
\* PathBuf::push: an absolute path replaces the buffer
PathPush(buf, str) == IF IsAbsolute(str) THEN Components(str) ELSE buf \o Components(str)

\* env.entrypoint.parent() and env.leafpath
Environment == [entry_parent |-> <<<<"proj">>>>, leafpath |-> <<<<"leaf">>>>]

Project(levels) == [ok |-> TRUE, src |-> "Project", levels |-> levels]
Leafpath(levels) == [ok |-> TRUE, src |-> "Leafpath", levels |-> levels]

\* leafmod.rs:130-133
file_postfix(ident) ==
    StrPushStr(StrPushStr(StrPushSlash(StrJoin(ident.path)), ident.name), ".lf")

\* leafmod.rs:122-161; files are the files that exist
FileSource_try_from(ident, env, files) ==
    LET from_project_path == PathPush(env.entry_parent, file_postfix(ident))
        from_leaf_path == PathPush(PathPush(env.leafpath, <<<<"modules">>>>), file_postfix(ident))
    IN IF from_project_path \in files THEN Project(Append(ident.path, ident.name))
       ELSE IF from_leaf_path \in files THEN Leafpath(Append(ident.path, ident.name))
       ELSE CheckPanic("ET: File not found")

\* p1/../pk/n.lf below a directory
ModuleFile(dir, ident) ==
    dir \o [i \in 1..Len(ident.path) |-> <<ident.path[i]>>] \o <<<<ident.name, ".lf">>>>
ProjectFile(ident) == ModuleFile(Environment.entry_parent, ident)
LeafFile(ident) == ModuleFile(Environment.leafpath \o <<<<"modules">>>>, ident)
RootFile(ident) == ModuleFile(<<>>, ident)

SegmentNames == <<"a", "b", "c">>
ImportIdents == {[path |-> SubSeq(SegmentNames, 1, k), name |-> "n"] : k \in 0..MaxSegments}
DiscoverJobs ==
    UNION {{[op |-> "discover", ident |-> id, files |-> fs] :
               fs \in SUBSET {ProjectFile(id), LeafFile(id), RootFile(id)}} : id \in ImportIdents}

\* ------------------------------------------------------------------------
\* The requests the checker is driven with
\* ------------------------------------------------------------------------
BridgeNames == {"add", "sub", "mul", "div", "push_back", "push_front", "get", "len",
                "eq", "lt", "print", "Add"}
CallTypes == {TInt, TBool, TList(TInt)}
ParamVectors == UNION {[1..n -> CallTypes] : n \in 0..MaxParams}
Idents == {<<"f">>, <<"g">>, <<"h">>, <<"id">>, <<"push_back">>, <<"add">>, <<"nope">>,
           <<"util", "h">>, <<"util", "id">>, <<"util", "nope">>, <<"other", "h">>}
Fids == {0, 1, 2}
MainSource == [fid |-> 1, funcid |-> 4]

Leaves == {TkInlined("Int"), TkInlined("Bool"), TkList(<<>>), TkList(<<TkInlined("Int")>>),
           TkList(<<TkInlined("Int"), TkInlined("Bool")>>)}
ListLeaves == {TkInlined("Int"), TkInlined("Float"), TkInlined("Nothing"), TkList(<<>>),
               TkList(<<TkInlined("Int")>>)}
IfTokens == {TkIf(b, e) : b \in UNION {[1..n -> [cond : Leaves, eval : Leaves]] : n \in 1..MaxBranches},
                          e \in Leaves}
ListTokens == {TkList(es) : es \in UNION {[1..n -> ListLeaves] : n \in 0..MaxEntries}}
FirstTokens == {TkFirst(es) : es \in UNION {[1..n -> Leaves] : n \in 1..2}}

\* ------------------------------------------------------------------------
\* Types as text (parser/type.rs)
\* ------------------------------------------------------------------------
\* a &str is the sequence of its characters; Chars spells the words used here
\* and takes any other string for a single character
Letters == <<"a", "b", "c", "d", "e", "f", "g", "h", "i", "j", "k", "l", "m",
             "n", "o", "p", "q", "r", "s", "t", "u", "v", "w", "x", "y", "z">>
Chars(s) ==
    CASE s = "int" -> <<"i", "n", "t">>
      [] s = "float" -> <<"f", "l", "o", "a", "t">>
      [] s = "bool" -> <<"b", "o", "o", "l">>
      [] s = "nothing" -> <<"n", "o", "t", "h", "i", "n", "g">>
      [] s = "_" -> <<"_">>
      [] s = "[a]" -> <<"[", "a", "]">>
      [] s = "[int]" -> <<"[", "i", "n", "t", "]">>
      [] OTHER -> <<s>>

TCustom(name) == [t |-> "Custom", name |-> name]
EmptyListType == [ok |-> FALSE, err |-> "EmptyListType"]

RECURSIVE TypeDisplay(_), JoinTypes(_, _)
\* takes.iter().map(to_string).join(" "), from type i on
JoinTypes(takes, i) ==
    IF i > Len(takes) THEN <<>>
    ELSE TypeDisplay(takes[i]) \o (IF i < Len(takes) THEN <<" ">> ELSE <<>>)
         \o JoinTypes(takes, i + 1)

\* impl fmt::Display for Type, type.rs:264-288
TypeDisplay(ty) ==
    CASE ty.t = "Nothing" -> Chars("nothing")
      [] ty.t = "Int" -> Chars("int")
      [] ty.t = "Float" -> Chars("float")
      [] ty.t = "Bool" -> Chars("bool")
      [] ty.t = "Generic" -> <<Letters[ty.g + 1]>>
      [] ty.t = "List" -> <<"[">> \o TypeDisplay(ty.of) \o <<"]">>
      [] ty.t = "Function" ->
            <<"(">> \o JoinTypes(ty.takes, 1) \o <<" ", "-", ">", " ">>
            \o TypeDisplay(ty.gives) \o <<")">>

RECURSIVE Trim(_)
\* str::trim
Trim(s) ==
    IF s # <<>> /\ Head(s) = " " THEN Trim(Tail(s))
    ELSE IF s # <<>> /\ s[Len(s)] = " " THEN Trim(SubSeq(s, 1, Len(s) - 1))
    ELSE s

\* the characters before the first `<`
RECURSIVE BeforeAnnotation(_)
BeforeAnnotation(s) ==
    IF s = <<>> \/ Head(s) = "<" THEN <<>> ELSE <<Head(s)>> \o BeforeAnnotation(Tail(s))

IsLower(c) == \E i \in 1..Len(Letters) : Letters[i] = c

RECURSIVE Type_try_from(_)
\* impl TryFrom<&str> for Type, type.rs:121-173; source[1..source.len() - 2]
\* are the characters 2 .. len - 2 counted from one
Type_try_from(source) ==
    IF source = <<>> THEN CheckPanic("Empty type")
    ELSE IF Head(source) = "["
    THEN IF Len(source) < 3 THEN EmptyListType
         ELSE LET inner == Type_try_from(Trim(SubSeq(source, 2, Len(source) - 2))) IN
              IF inner.ok THEN Ok(TList(inner.ty)) ELSE inner
    ELSE IF IsLower(Head(source)) /\ Len(source) = 1
    THEN Ok(TGeneric((CHOOSE i \in 1..Len(Letters) : Letters[i] = Head(source)) - 1))
    ELSE LET tbuf == BeforeAnnotation(source) IN
         CASE tbuf = Chars("int") -> Ok(TInt)
           [] tbuf = Chars("float") -> Ok(TFloat)
           [] tbuf = Chars("nothing") \/ tbuf = Chars("_") -> Ok(TNothing)
           [] tbuf = Chars("bool") -> Ok(TBool)
           [] OTHER -> Ok(TCustom(tbuf))       \* Identifier::try_from(tbuf), taken to succeed

\* the types that are written out and read back: lists nested up to MaxListDepth
MaxListDepth == 2
MaxGeneric == 25
RECURSIVE TextTypes(_)
TextTypes(depth) ==
    IF depth = 0
    THEN {TNothing, TInt, TFloat, TBool} \cup {TGeneric(g) : g \in 0..MaxGeneric}
    ELSE TextTypes(depth - 1) \cup {TList(ty) : ty \in TextTypes(depth - 1)}

\* bodies for g: leaves, calls, and calls with calls among their arguments
BodyLeaves == {TkInlined("Bool"), TkInlined("Int")}
Callees == {TkIdentifier(<<"g">>), TkIdentifier(<<"id">>), TkRustCall(TInt)}
InnerCalls(cell) == {TkParameterized(e, <<a>>, cell) : e \in Callees, a \in BodyLeaves}
BodyArgs == UNION {{ps \in [1..n -> BodyLeaves \cup InnerCalls(2) \cup InnerCalls(3)] :
                       \A j \in 1..n : ps[j].k = "Parameterized" => ps[j].cell = j + 1} :
                   n \in 1..MaxParams}
Bodies == BodyLeaves \cup {TkParameterized(e, ps, 1) : e \in Callees, ps \in BodyArgs}
MaxCells == MaxParams + 1

Jobs ==
    {[op |-> "get_funcid", name |-> n] : n \in BridgeNames}
    \cup {[op |-> "rust_call_type", name |-> n, params |-> ps] : n \in BridgeNames, ps \in ParamVectors}
    \cup {[op |-> "find_matching_function", self_fid |-> fid, ident |-> id, params |-> ps] :
             fid \in Fids, id \in Idents, ps \in ParamVectors}
    \cup {[op |-> "call_type", self_fid |-> fid, ident |-> id, params |-> ps] :
             fid \in Fids, id \in Idents, ps \in ParamVectors}
    \cup {[op |-> "type_check", token |-> t] : t \in IfTokens \cup ListTokens \cup FirstTokens}
    \cup DiscoverJobs
    \cup {[op |-> "type_check_function", body |-> b] : b \in Bodies}
    \cup {[op |-> "type_try_from", ty |-> ty] : ty \in TextTypes(MaxListDepth)}
    \cup {[op |-> "find_return_type", self_fid |-> fid, ident |-> id, params |-> ps] :
             fid \in Fids, id \in Idents, ps \in ParamVectors}

CheckFrame == UNCHANGED <<job, prog, input, status, instructions, stack, retval, result,
                          callDepth, chunk, tokens, parsed>>

Pending(op) == answer = None /\ job.op = op

GetFuncid ==
    /\ Pending("get_funcid")
    /\ answer' = get_funcid(job.name)
    /\ CheckFrame

RustCallType ==
    /\ Pending("rust_call_type")
    /\ answer' = rust_call_type(job.name, job.params)
    /\ CheckFrame

FindMatchingFunction ==
    /\ Pending("find_matching_function")
    /\ answer' \in find_matching_function(job.self_fid, job.ident, job.params)
    /\ CheckFrame

CallType ==
    /\ Pending("call_type")
    /\ answer' \in type_check_function_source(job.self_fid, job.ident, job.params)
    /\ CheckFrame

TypeCheck ==
    /\ Pending("type_check")
    /\ answer' = type_check(job.token, MainSource)
    /\ CheckFrame

Discover ==
    /\ Pending("discover")
    /\ answer' = FileSource_try_from(job.ident, Environment, job.files)
    /\ CheckFrame

TypeCheckFunction ==
    /\ Pending("type_check_function")
    /\ answer' = type_check_cell(job.body, MainSource, Cells(MaxCells),
                                 [source |-> MainSource, body |-> job.body])
    /\ CheckFrame

FindReturnType ==
    /\ Pending("find_return_type")
    /\ answer' = find_return_type(job.self_fid, job.params, TkIdentifier(job.ident))
    /\ CheckFrame

\* a type is written with Display and read back with try_from
TypeTryFrom ==
    /\ Pending("type_try_from")
    /\ answer' = Type_try_from(TypeDisplay(job.ty))
    /\ CheckFrame

InitCheck ==
    /\ job \in Jobs
    /\ answer = None
    /\ prog = "none" /\ input = <<>> /\ status = "idle" /\ instructions = <<>>
    /\ stack = <<>> /\ retval = None /\ result = None /\ callDepth = <<>>
    /\ chunk = None /\ tokens = <<>> /\ parsed = None

NextCheck ==
    \/ GetFuncid \/ RustCallType \/ FindMatchingFunction \/ CallType \/ TypeCheck
    \/ Discover \/ TypeCheckFunction \/ FindReturnType \/ TypeTryFrom

SpecCheck == InitCheck /\ [][NextCheck]_vars

\* ------------------------------------------------------------------------
\* Claims about the bridge table and the type checker
\* ------------------------------------------------------------------------
Answered(op) == job.op = op /\ answer # None

\* C4: scenario S6, push_back called with argument types (List(Int), Int)
\* type-checks to List(Int), by the bridged primitive's return-type rule and
\* by the declared signature [a] a -> [a].
C4_PushBackType ==
    /\ (Answered("rust_call_type") /\ job.name = "push_back"
            /\ job.params = <<TList(TInt), TInt>>)
        => answer = Ok(TList(TInt))
    /\ (Answered("call_type") /\ job.ident = <<"push_back">>
            /\ job.params = <<TList(TInt), TInt>>)
        => answer = Ok(TList(TInt))

BridgedNames == <<"add", "sub", "mul", "div", "push_back", "push_front", "get", "len">>
BridgedRules == <<Matching(0), Matching(0), Matching(0), Matching(0), Matching(1),
                  Matching(1), UnlistedMatching(1), Known(TInt)>>

\* C5: get_funcid maps exactly add, sub, mul, div, push_back, push_front, get,
\* len to the indices 0..7 with the rules Matching(0) x4, Matching(1) x2,
\* UnlistedMatching(1), Known(Int); any other name gives
\* BridgedFunctionNotFound carrying that name.
C5_GetFuncid ==
    Answered("get_funcid") =>
        IF \E j \in DOMAIN BridgedNames : BridgedNames[j] = job.name
        THEN \A j \in DOMAIN BridgedNames :
                BridgedNames[j] = job.name =>
                    answer = [ok |-> TRUE, id |-> j - 1, ty |-> BridgedRules[j]]
        ELSE answer = BridgedFunctionNotFound(job.name)

C5_Witness ==
    Answered("get_funcid") /\ job.name = "eq" /\ answer = BridgedFunctionNotFound("eq")

\* the variants the lookup of ident from module self_fid chooses among: those of
\* the name in the module the identifier designates, or, for an unqualified
\* name that module does not define, those of the prelude
NameVariants(self_fid, ident) ==
    LET qualified == Len(ident) # 1
        imports == Module(self_fid).imports
        fid == IF ~qualified THEN self_fid
               ELSE IF ident[1] \in DOMAIN imports THEN imports[ident[1]] ELSE -1
        name == ident[Len(ident)]
    IN IF fid = -1 THEN [fid |-> -1, variants |-> {}]
       ELSE IF name \in DOMAIN Module(fid).function_ids
            THEN [fid |-> fid, variants |-> Module(fid).function_ids[name]]
            ELSE IF ~qualified /\ name \in DOMAIN Module(PRELUDE_FID).function_ids
                 THEN [fid |-> PRELUDE_FID,
                       variants |-> Module(PRELUDE_FID).function_ids[name]]
                 ELSE [fid |-> fid, variants |-> {}]

Unifies(declared, actual) ==
    Len(declared) = Len(actual) /\ unify_all(declared, actual, 1, GenericsEmpty).ok

\* C6: whenever the name has a variant whose declared parameter types unify
\* with the call-site types, find_matching_function succeeds; whenever a
\* variant's parameter types equal the call-site types, that variant is
\* returned with empty generics, even if other variants match generically.
C6_OverloadResolution ==
    Answered("find_matching_function") =>
        LET nv == NameVariants(job.self_fid, job.ident) IN
        /\ (\E v \in nv.variants : Unifies(v.params, job.params)) => answer.ok
        /\ \A v \in nv.variants :
              v.params = job.params => answer = Found(v.funcid, nv.fid, GenericsEmpty)

C6_Witness ==
    /\ Answered("find_matching_function")
    /\ job.self_fid = 1 /\ job.ident = <<"f">> /\ job.params = <<TInt>>
    /\ Unifies(<<TGeneric(0)>>, job.params)
    /\ answer = Found(1, 1, GenericsEmpty)

IfWellTyped(expr, source) ==
    LET conds == {type_check(expr.branches[j].cond, source) : j \in 1..Len(expr.branches)}
        evals == {type_check(expr.branches[j].eval, source) : j \in 1..Len(expr.branches)}
                 \cup {type_check(expr.else_branch, source)}
    IN /\ \A c \in conds : c = Ok(TBool)
       /\ \A v \in evals : v.ok
       /\ \A v, w \in evals : v = w

\* C7: type checking an If succeeds iff every condition has type Bool and all
\* branch evaluations and the else have one common type; the If then has that type.
C7_IfTypeCheck ==
    (Answered("type_check") /\ job.token.k = "IfExpression") =>
        /\ answer.ok = IfWellTyped(job.token, MainSource)
        /\ answer.ok => answer = type_check(job.token.else_branch, MainSource)

C7_Witness ==
    /\ Answered("type_check") /\ job.token.k = "IfExpression"
    /\ Len(job.token.branches) = 2
    /\ answer = Ok(TList(TInt))

\* C8: an empty list literal where List(T) is required resolves to List(T):
\* `if c then [] else [1]` and the list of `[]` and `[1]` type-check, the empty
\* list taking the type List(Int) of its context.
C8_EmptyListResolves ==
    /\ (Answered("type_check")
            /\ job.token = TkIf(<<[cond |-> TkInlined("Bool"), eval |-> TkList(<<>>)]>>,
                                TkList(<<TkInlined("Int")>>)))
        => answer = Ok(TList(TInt))
    /\ (Answered("type_check")
            /\ job.token = TkList(<<TkList(<<>>), TkList(<<TkInlined("Int")>>)>>))
        => answer = Ok(TList(TList(TInt)))

\* ========================================================================
\* Expression parser: AstBuilder (parser/ast/builder.rs)
\* ========================================================================
\* tokens (parser/tokenizer/token.rs: RawToken)
RtInlined(v) == [k |-> "Inlined", v |-> v]
RtIdent(name) == [k |-> "Identifier", path |-> <<>>, name |-> name, op |-> FALSE]
RtOperator(name) == [k |-> "Identifier", path |-> <<>>, name |-> name, op |-> TRUE]
RtBuiltin(name) == [k |-> "Identifier", path |-> <<"builtin">>, name |-> name, op |-> FALSE]
RtKey(key) == [k |-> "Key", key |-> key]
RtNewLine == [k |-> "NewLine"]
RtHeader == [k |-> "Header"]

IsKey(t, key) == t.k = "Key" /\ t.key = key

\* the identifier an Identifier token carries
IdentOf(t) == [path |-> t.path, name |-> t.name, op |-> t.op]

\* AST entities (parser/ast: Entity, Callable, Passable)
AstInlined(v) == [e |-> "Inlined", v |-> v]
AstSingleIdent(ident) == [e |-> "SingleIdent", ident |-> ident]
AstCall(callable, params) == [e |-> "Call", callable |-> callable, params |-> params]
AstLambda(params, body) == [e |-> "Lambda", params |-> params, body |-> body]
AstPass(passable) == [e |-> "Pass", pass |-> passable]
AstIf(branches, else) == [e |-> "If", branches |-> branches, els |-> else]
AstFirst(stmts) == [e |-> "First", stmts |-> stmts]
AstList(entries) == [e |-> "List", entries |-> entries]
AstRecord(name, fields) == [e |-> "Record", name |-> name, fields |-> fields]
AstUnimplemented == [e |-> "Unimplemented"]
CallFunc(ident) == [c |-> "Func", ident |-> ident]
CallBuiltin(ident) == [c |-> "Builtin", ident |-> ident]
CallLambda(params, body) == [c |-> "Lambda", params |-> params, body |-> body]
PassValue(v) == [p |-> "Value", v |-> v]
PassFunc(ident) == [p |-> "Func", ident |-> ident]
PassPartialFunc(callable, params) == [p |-> "PartialFunc", callable |-> callable, params |-> params]
PassLambda(params, body) == [p |-> "Lambda", params |-> params, body |-> body]

\* Result<_, ParseError>, with the tokenizer position reached
POk(ent, pos) == [ok |-> TRUE, ent |-> ent, pos |-> pos]
PErr(fault, what) == [ok |-> FALSE, err |-> fault, what |-> what]
Eof == [k |-> "Eof"]

\* tokenizer.peek() at position pos
Peek(toks, pos) == IF pos <= Len(toks) THEN toks[pos] ELSE Eof

\* a callable that took no parameters, as an entity
CallableEntity(takes) ==
    CASE takes.c = "Func" -> AstSingleIdent(takes.ident)
      [] takes.c = "Lambda" -> AstLambda(takes.params, takes.body)
      [] OTHER -> AstCall(takes, <<>>)

RECURSIVE run_chunk(_, _), lambda_should_consume_pipe(_, _), run_lambda(_, _, _),
          run_parameterized(_, _), run_closure_conversion(_, _),
          run_maybe_parameterized(_, _, _), next_can_be_parameter(_, _),
          run_maybe_operator(_, _, _), run_operator(_, _, _, _),
          run_if_expression(_, _, _), run_if_then(_, _), run_if_after(_, _, _),
          run_first_statement(_, _, _, _), run_first_after(_, _, _),
          run_list(_, _), run_list_entries(_, _, _),
          run_record(_, _), run_record_fields(_, _)

\* builder.rs:315-332; answers [can, pos]: the newlines it skipped stay consumed
next_can_be_parameter(toks, pos) ==
    LET t == Peek(toks, pos) IN
    CASE t.k = "Inlined" -> [can |-> TRUE, pos |-> pos]
      [] t.k = "Key" -> [can |-> t.key \in {"Pipe", "ParenOpen", "ClosureMarker", "ListOpen"},
                         pos |-> pos]
      [] t.k = "Identifier" -> [can |-> ~t.op, pos |-> pos]
      [] t.k = "NewLine" -> next_can_be_parameter(toks, pos + 1)
      [] OTHER -> [can |-> FALSE, pos |-> pos]

\* builder.rs:138-147
lambda_should_consume_pipe(toks, pos) ==
    LET t == Peek(toks, pos) IN
    CASE IsKey(t, "Pipe") -> [can |-> TRUE, pos |-> pos]
      [] t.k = "NewLine" -> lambda_should_consume_pipe(toks, pos + 1)
      [] OTHER -> [can |-> FALSE, pos |-> pos]

\* builder.rs:336-356
run_maybe_operator(toks, pos, left) ==
    LET t == Peek(toks, pos) IN
    IF t.k = "Identifier"
    THEN IF t.op THEN run_operator(toks, pos + 1, left, IdentOf(t))
         ELSE PErr("Unexpected", t)
    ELSE POk(left, pos)

\* faulty variant: the operands are handed to the operator in the other order
run_operator_swapped(toks, pos, left, op) ==
    LET right == run_chunk(toks, pos) IN
    IF ~right.ok THEN right
    ELSE run_maybe_operator(toks, right.pos, AstCall(CallFunc(op), <<right.ent, left>>))

\* builder.rs:358-368
run_operator(toks, pos, left, op) ==
    LET right == run_chunk(toks, pos) IN
    IF ~right.ok THEN right
    ELSE run_maybe_operator(toks, right.pos, AstCall(CallFunc(op), <<left, right.ent>>))

\* faulty variant: a callable without parameters becomes a call with no arguments
run_maybe_parameterized_empty_call(toks, pos, takes) ==
    LET n == next_can_be_parameter(toks, pos) IN
    IF n.can
    THEN LET params == run_parameterized(toks, n.pos) IN
         IF ~params.ok THEN params
         ELSE run_maybe_operator(toks, params.pos, AstCall(takes, params.ent))
    ELSE POk(AstCall(takes, <<>>), n.pos)

\* builder.rs:301-313
run_maybe_parameterized(toks, pos, takes) ==
    LET n == next_can_be_parameter(toks, pos) IN
    IF n.can
    THEN LET params == run_parameterized(toks, n.pos) IN
         IF ~params.ok THEN params
         ELSE run_maybe_operator(toks, params.pos, AstCall(takes, params.ent))
    ELSE POk(CallableEntity(takes), n.pos)

\* faulty variant: the pipe is skipped and what follows is read as further parameters
run_parameterized_pipe_skipped(toks, pos) ==
    LET t == Peek(toks, pos)
        Cons(v, rest) == IF ~rest.ok THEN rest ELSE POk(<<v>> \o rest.ent, rest.pos)
    IN
    CASE t.k = "Eof" -> POk(<<>>, pos)
      [] t.k = "Inlined" -> Cons(AstInlined(t.v), run_parameterized(toks, pos + 1))
      [] t.k = "Identifier" ->
            IF t.op THEN POk(<<>>, pos)
            ELSE Cons(AstSingleIdent(IdentOf(t)), run_parameterized(toks, pos + 1))
      [] IsKey(t, "ParenOpen") ->
            LET v == run_chunk(toks, pos + 1) IN
            IF ~v.ok THEN v
            ELSE LET after == Peek(toks, v.pos) IN
                 IF IsKey(after, "ParenClose")
                 THEN Cons(v.ent, run_parameterized(toks, v.pos + 1))
                 ELSE IF after.k = "Eof" THEN PErr("Unmatched", "ParenOpen")
                 ELSE PErr("GotButExpected", after)
      [] IsKey(t, "RecordOpen") ->
            LET v == run_record(toks, pos + 1) IN
            IF ~v.ok THEN v ELSE POk(<<v.ent>>, v.pos)
      [] IsKey(t, "Pipe") -> run_parameterized(toks, pos + 1)
      [] IsKey(t, "ListOpen") ->
            LET v == run_list(toks, pos + 1) IN
            IF ~v.ok THEN v ELSE Cons(v.ent, run_parameterized(toks, v.pos))
      [] IsKey(t, "ClosureMarker") ->
            LET v == run_closure_conversion(toks, pos + 1) IN
            IF ~v.ok THEN v ELSE Cons(AstPass(v.ent), run_parameterized(toks, v.pos))
      [] t.k = "Header" -> POk(<<>>, pos)
      [] t.k = "Key" /\ t.key \in {"Where", "ParenClose", "Then", "Else", "ListClose",
                                   "And", "Elif"} -> POk(<<>>, pos)
      [] t.k = "NewLine" -> run_parameterized(toks, pos + 1)
      [] OTHER -> PErr("UnexpectedWantedParameter", t)

\* builder.rs:178-258; ent is the Vec of parameters
run_parameterized(toks, pos) ==
    LET t == Peek(toks, pos)
        Cons(v, rest) == IF ~rest.ok THEN rest ELSE POk(<<v>> \o rest.ent, rest.pos)
    IN
    CASE t.k = "Eof" -> POk(<<>>, pos)
      [] t.k = "Inlined" -> Cons(AstInlined(t.v), run_parameterized(toks, pos + 1))
      [] t.k = "Identifier" ->
            IF t.op THEN POk(<<>>, pos)
            ELSE Cons(AstSingleIdent(IdentOf(t)), run_parameterized(toks, pos + 1))
      [] IsKey(t, "ParenOpen") ->
            LET v == run_chunk(toks, pos + 1) IN
            IF ~v.ok THEN v
            ELSE LET after == Peek(toks, v.pos) IN
                 IF IsKey(after, "ParenClose")
                 THEN Cons(v.ent, run_parameterized(toks, v.pos + 1))
                 ELSE IF after.k = "Eof" THEN PErr("Unmatched", "ParenOpen")
                 ELSE PErr("GotButExpected", after)
      [] IsKey(t, "RecordOpen") ->
            LET v == run_record(toks, pos + 1) IN
            IF ~v.ok THEN v ELSE POk(<<v.ent>>, v.pos)
      [] IsKey(t, "Pipe") ->
            LET v == run_chunk(toks, pos + 1) IN
            IF ~v.ok THEN v ELSE POk(<<v.ent>>, v.pos)
      [] IsKey(t, "ListOpen") ->
            LET v == run_list(toks, pos + 1) IN
            IF ~v.ok THEN v ELSE Cons(v.ent, run_parameterized(toks, v.pos))
      [] IsKey(t, "ClosureMarker") ->
            LET v == run_closure_conversion(toks, pos + 1) IN
            IF ~v.ok THEN v ELSE Cons(AstPass(v.ent), run_parameterized(toks, v.pos))
      [] t.k = "Header" -> POk(<<>>, pos)
      [] t.k = "Key" /\ t.key \in {"Where", "ParenClose", "Then", "Else", "ListClose",
                                   "And", "Elif"} -> POk(<<>>, pos)
      [] t.k = "NewLine" -> run_parameterized(toks, pos + 1)
      [] OTHER -> PErr("UnexpectedWantedParameter", t)

\* faulty variant: whatever stands between the parentheses is passed on
run_closure_conversion_any_entity(toks, pos) ==
    LET inner == Peek(toks, pos) IN
    CASE inner.k = "Eof" -> PErr("Unexpected", RtKey("ClosureMarker"))
      [] IsKey(inner, "ParenOpen") ->
            LET v == run_chunk(toks, pos + 1) IN
            IF ~v.ok THEN v
            ELSE LET after == Peek(toks, v.pos)
                     entity == v.ent
                 IN IF after.k = "Eof" THEN PErr("Unmatched", "ParenOpen")
                    ELSE IF ~IsKey(after, "ParenClose") THEN PErr("Unexpected", after)
                    ELSE CASE entity.e = "Inlined" -> POk(PassValue(entity.v), v.pos + 1)
                           [] entity.e = "Lambda" ->
                                 POk(PassLambda(entity.params, entity.body), v.pos + 1)
                           [] entity.e = "SingleIdent" -> POk(PassFunc(entity.ident), v.pos + 1)
                           [] entity.e = "Call" ->
                                 POk(PassPartialFunc(entity.callable, entity.params), v.pos + 1)
                           [] OTHER -> POk(PassValue(entity), v.pos + 1)
      [] inner.k = "Identifier" -> POk(PassFunc(IdentOf(inner)), pos + 1)
      [] inner.k = "Inlined" -> POk(PassValue(inner.v), pos + 1)
      [] OTHER -> PErr("InvalidClosureT", inner)

\* builder.rs:260-298; ent is the Passable
run_closure_conversion(toks, pos) ==
    LET inner == Peek(toks, pos) IN
    CASE inner.k = "Eof" -> PErr("Unexpected", RtKey("ClosureMarker"))
      [] IsKey(inner, "ParenOpen") ->
            LET v == run_chunk(toks, pos + 1) IN
            IF ~v.ok THEN v
            ELSE LET after == Peek(toks, v.pos)
                     entity == v.ent
                 IN IF after.k = "Eof" THEN PErr("Unmatched", "ParenOpen")
                    ELSE IF ~IsKey(after, "ParenClose") THEN PErr("Unexpected", after)
                    ELSE CASE entity.e = "Inlined" -> POk(PassValue(entity.v), v.pos + 1)
                           [] entity.e = "Lambda" ->
                                 POk(PassLambda(entity.params, entity.body), v.pos + 1)
                           [] entity.e = "SingleIdent" -> POk(PassFunc(entity.ident), v.pos + 1)
                           [] entity.e = "Call" ->
                                 POk(PassPartialFunc(entity.callable, entity.params), v.pos + 1)
                           [] OTHER -> PErr("InvalidClosure", entity)
      [] inner.k = "Identifier" -> POk(PassFunc(IdentOf(inner)), pos + 1)
      [] inner.k = "Inlined" -> POk(PassValue(inner.v), pos + 1)
      [] OTHER -> PErr("InvalidClosureT", inner)

\* builder.rs:149-175; params are the lambda parameters read so far
run_lambda(toks, pos, params) ==
    LET t == Peek(toks, pos) IN
    CASE t.k = "Eof" -> PErr("Unexpected", RtKey("Lambda"))
      [] t.k = "Identifier" -> run_lambda(toks, pos + 1, Append(params, IdentOf(t)))
      [] IsKey(t, "Arrow") ->
            LET v == run_chunk(toks, pos + 1) IN
            IF ~v.ok THEN v ELSE POk(AstLambda(params, v.ent), v.pos)
      [] OTHER -> PErr("GotButExpected", t)

\* builder.rs:374-383, the '_inner loop: skip newlines up to `then`
run_if_then(toks, pos) ==
    LET after == Peek(toks, pos) IN
    CASE after.k = "Eof" -> PErr("IfMissingThen", None)
      [] IsKey(after, "Then") -> POk(None, pos + 1)
      [] after.k = "NewLine" -> run_if_then(toks, pos + 1)
      [] OTHER -> PErr("IfWantedThen", after)

\* builder.rs:387-408, the 'inner loop: `elif` starts another branch, `else` ends
run_if_after(toks, pos, branches) ==
    LET after == Peek(toks, pos) IN
    CASE after.k = "Eof" -> PErr("IfMissingThen", None)
      [] IsKey(after, "Elif") -> run_if_expression(toks, pos + 1, branches)
      [] after.k = "NewLine" -> run_if_after(toks, pos + 1, branches)
      [] IsKey(after, "Else") ->
            LET last == run_chunk(toks, pos + 1) IN
            IF ~last.ok THEN last ELSE POk(AstIf(branches, last.ent), last.pos)
      [] OTHER -> PErr("GotButExpected", after)

\* faulty variant: a new branch is put in front of the ones already read
run_if_expression_prepend(toks, pos, branches) ==
    LET cond == run_chunk(toks, pos) IN
    IF ~cond.ok THEN cond
    ELSE LET then == run_if_then(toks, cond.pos) IN
         IF ~then.ok THEN then
         ELSE LET eval == run_chunk(toks, then.pos) IN
              IF ~eval.ok THEN eval
              ELSE run_if_after(toks, eval.pos,
                                <<[cond |-> cond.ent, eval |-> eval.ent]>> \o branches)

\* builder.rs:370-410; branches are the (cond, eval) pairs read so far
run_if_expression(toks, pos, branches) ==
    LET cond == run_chunk(toks, pos) IN
    IF ~cond.ok THEN cond
    ELSE LET then == run_if_then(toks, cond.pos) IN
         IF ~then.ok THEN then
         ELSE LET eval == run_chunk(toks, then.pos) IN
              IF ~eval.ok THEN eval
              ELSE run_if_after(toks, eval.pos,
                                Append(branches, [cond |-> cond.ent, eval |-> eval.ent]))

\* builder.rs:424-438, the 'inner loop of run_first_statement
run_first_after(toks, pos, branches) ==
    LET after == Peek(toks, pos) IN
    CASE after.k = "Eof" -> PErr("FirstMissingThen", None)
      [] IsKey(after, "And") -> run_first_statement(toks, pos + 1, branches, FALSE)
      [] after.k = "NewLine" -> run_first_after(toks, pos + 1, branches)
      [] IsKey(after, "Then") -> run_first_statement(toks, pos + 1, branches, TRUE)
      [] OTHER -> PErr("FirstWantedThen", after)

\* faulty variant: a new entry is put in front of the ones already read
run_first_statement_prepend(toks, pos, branches, last) ==
    LET v == run_chunk(toks, pos) IN
    IF ~v.ok THEN v
    ELSE IF last THEN POk(AstFirst(Append(branches, v.ent)), v.pos)
    ELSE run_first_after(toks, v.pos, <<v.ent>> \o branches)

\* builder.rs:412-440
run_first_statement(toks, pos, branches, last) ==
    LET v == run_chunk(toks, pos) IN
    IF ~v.ok THEN v
    ELSE IF last THEN POk(AstFirst(Append(branches, v.ent)), v.pos)
    ELSE run_first_after(toks, v.pos, Append(branches, v.ent))

\* builder.rs:454-471, the loop of run_list
run_list_entries(toks, pos, buf) ==
    LET v == run_chunk(toks, pos) IN
    IF ~v.ok THEN v
    ELSE LET after == Peek(toks, v.pos) IN
         CASE IsKey(after, "ListClose") -> POk(AstList(Append(buf, v.ent)), v.pos + 1)
           [] IsKey(after, "Comma") -> run_list_entries(toks, v.pos + 1, Append(buf, v.ent))
           [] after.k = "Eof" -> PErr("Unmatched", "ListOpen")
           [] OTHER -> PErr("GotButExpected", after)

\* builder.rs:443-472
run_list(toks, pos) ==
    IF IsKey(Peek(toks, pos), "ListClose") THEN POk(AstList(<<>>), pos + 1)
    ELSE run_list_entries(toks, pos, <<>>)

\* builder.rs:510-538; ent is the Vec of (name, value)
run_record_fields(toks, pos) ==
    LET t == Peek(toks, pos) IN
    CASE t.k = "Eof" -> PErr("EndedWhileExpecting", "field name")
      [] t.k # "Identifier" -> PErr("GotButExpected", t)
      [] OTHER ->
            LET value == run_chunk(toks, pos + 1) IN
            IF ~value.ok THEN value
            ELSE LET after == Peek(toks, value.pos)
                     field == [name |-> t.name, value |-> value.ent]
                 IN CASE after.k = "Eof" -> PErr("EndedWhileExpecting", "}")
                      [] IsKey(after, "Comma") ->
                            LET buf == run_record_fields(toks, value.pos + 1) IN
                            IF ~buf.ok THEN buf
                            ELSE POk(Append(buf.ent, field), buf.pos)
                      [] IsKey(after, "RecordClose") -> POk(<<field>>, value.pos + 1)
                      [] OTHER -> PErr("panic", after)

\* builder.rs:473-508
run_record(toks, pos) ==
    LET t == Peek(toks, pos)
        dot == Peek(toks, pos + 1)
    IN
    CASE t.k = "Eof" -> PErr("EndedWhileExpecting", "type name")
      [] t.k # "Identifier" -> PErr("GotButExpected", t)
      [] dot.k = "Eof" -> PErr("EndedWhileExpecting", ".")
      [] ~IsKey(dot, "Dot") -> PErr("GotButExpected", dot)
      [] OTHER ->
            LET fields == run_record_fields(toks, pos + 2) IN
            IF ~fields.ok THEN fields
            ELSE POk(AstRecord(IdentOf(t), fields.ent), fields.pos)

\* builder.rs:21-135
run_chunk(toks, pos) ==
    LET t == Peek(toks, pos) IN
    CASE t.k = "Eof" -> PErr("EmptyParen", None)
      [] t.k = "Header" \/ IsKey(t, "Where") -> PErr("EmptyParen", None)
      [] IsKey(t, "ParenOpen") ->
            LET v == run_chunk(toks, pos + 1) IN
            IF ~v.ok THEN v
            ELSE IF ~IsKey(Peek(toks, v.pos), "ParenClose") THEN PErr("Unmatched", "ParenOpen")
            ELSE IF v.ent.e = "Lambda"
                 THEN run_maybe_parameterized(toks, v.pos + 1,
                                              CallLambda(v.ent.params, v.ent.body))
                 ELSE run_maybe_operator(toks, v.pos + 1, v.ent)
      [] IsKey(t, "PrimitiveUnimplemented") -> POk(AstUnimplemented, pos + 1)
      [] t.k = "Inlined" -> run_maybe_operator(toks, pos + 1, AstInlined(t.v))
      [] IsKey(t, "ListOpen") ->
            LET v == run_list(toks, pos + 1) IN
            IF ~v.ok THEN v ELSE run_maybe_operator(toks, v.pos, v.ent)
      [] IsKey(t, "RecordOpen") -> run_record(toks, pos + 1)
      [] IsKey(t, "If") ->
            LET v == run_if_expression(toks, pos + 1, <<>>) IN
            IF ~v.ok THEN v ELSE run_maybe_operator(toks, v.pos, v.ent)
      [] IsKey(t, "First") ->
            LET v == run_first_statement(toks, pos + 1, <<>>, FALSE) IN
            IF ~v.ok THEN v ELSE run_maybe_operator(toks, v.pos, v.ent)
      [] t.k = "Identifier" ->
            LET callable == IF Len(t.path) > 0 /\ Head(t.path) = "builtin"
                            THEN CallBuiltin([IdentOf(t) EXCEPT !.path = Tail(t.path)])
                            ELSE CallFunc(IdentOf(t))
                v == run_maybe_parameterized(toks, pos + 1, callable)
            IN IF ~v.ok THEN v ELSE run_maybe_operator(toks, v.pos, v.ent)
      [] IsKey(t, "Lambda") ->
            LET v == run_lambda(toks, pos + 1, <<>>) IN
            IF ~v.ok THEN v
            ELSE LET pipe == lambda_should_consume_pipe(toks, v.pos) IN
                 IF pipe.can
                 THEN LET piped_param == run_chunk(toks, pipe.pos + 1) IN
                      IF ~piped_param.ok THEN piped_param
                      ELSE POk(AstCall(CallLambda(v.ent.params, v.ent.body),
                                       <<piped_param.ent>>), piped_param.pos)
                 ELSE POk(v.ent, pipe.pos)
      [] t.k = "NewLine" -> run_chunk(toks, pos + 1)
      [] OTHER -> PErr("Unexpected", t)

\* ------------------------------------------------------------------------
\* Function headers (parser/function.rs)
\* ------------------------------------------------------------------------
RECURSIVE parse_list_type(_, _), parse_param_type(_, _, _), parse_return_type(_, _),
          with_parameter_types(_, _, _), with_parameter_names(_, _, _)

FunctionBuilder(name) ==
    [name |-> name, parameter_names |-> <<>>, parameter_types |-> <<>>, returns |-> TNothing]

\* Type::try_from(..).map_err(|e| e.to_err(source_index)) as a parse result
MapErr(ty, t, pos) == IF ty.ok THEN POk(ty.ty, pos) ELSE PErr(ty.err, t)
IdentType(t, pos) == MapErr(Type_try_from(Chars(t.name)), t, pos)

\* Type::List(Box::new(inner?))
ListOf(inner) == IF ~inner.ok THEN inner ELSE POk(TList(inner.ent), inner.pos)

\* function.rs:207-218: the token after a list's element type
ListTypeEnd(toks, ty) ==
    IF ~ty.ok THEN ty
    ELSE CASE Peek(toks, ty.pos).k = "Eof" -> PErr("Unmatched", "ListOpen")
           [] IsKey(Peek(toks, ty.pos), "ListClose") -> POk(ty.ent, ty.pos + 1)
           [] OTHER -> PErr("GotButExpected", Peek(toks, ty.pos))

\* function.rs:182-219; called after the `[`
parse_list_type(toks, pos) ==
    CASE IsKey(Peek(toks, pos), "ListOpen") ->
            ListTypeEnd(toks, ListOf(parse_list_type(toks, pos + 1)))
      [] Peek(toks, pos).k = "Identifier" ->
            ListTypeEnd(toks, IdentType(Peek(toks, pos), pos + 1))
      [] OTHER -> PErr("Unmatched", "ParenOpen")

\* buf.push(ty?), then the next turn of the loop of parse_param_type
BufPush(toks, buf, ty) ==
    IF ~ty.ok THEN ty ELSE parse_param_type(toks, ty.pos, Append(buf, ty.ent))

\* (buf, returns?)
BufReturns(buf, returns) ==
    IF ~returns.ok THEN returns ELSE POk(TFunction(buf, returns.ent), returns.pos)

\* function.rs:221-265; called after the `(`, buf the types read so far
parse_param_type(toks, pos, buf) ==
    CASE Peek(toks, pos).k = "Eof" -> PErr("EndedWhileExpecting", "parameter type")
      [] Peek(toks, pos).k = "Identifier" ->
            BufPush(toks, buf, IdentType(Peek(toks, pos), pos + 1))
      [] IsKey(Peek(toks, pos), "ListOpen") ->
            BufPush(toks, buf, ListOf(parse_list_type(toks, pos + 1)))
      [] IsKey(Peek(toks, pos), "ParenOpen") ->
            BufPush(toks, buf, parse_param_type(toks, pos + 1, <<>>))
      [] IsKey(Peek(toks, pos), "Arrow") ->
            BufReturns(buf, parse_return_type(toks, pos + 1))
      [] IsKey(Peek(toks, pos), "ParenClose") ->
            IF Len(buf) > 1 THEN PErr("panic", "Malformed parameter type")
            ELSE IF buf = <<>> THEN PErr("panic", "Empty parameter type")
            ELSE POk(TFunction(<<>>, buf[1]), pos + 1)
      [] OTHER -> PErr("GotButExpected", Peek(toks, pos))

\* function.rs:299-313: the token after a return type
ReturnTypeEnd(toks, ty) ==
    IF ~ty.ok THEN ty
    ELSE CASE Peek(toks, ty.pos).k = "Eof" -> PErr("EndedWhileExpecting", "ParenClose")
           [] IsKey(Peek(toks, ty.pos), "ParenClose") -> POk(ty.ent, ty.pos + 1)
           [] OTHER -> PErr("GotButExpected", Peek(toks, ty.pos))

\* function.rs:267-314: one type, then `)`
parse_return_type(toks, pos) ==
    CASE Peek(toks, pos).k = "Eof" -> PErr("EndedWhileExpecting", "return type")
      [] Peek(toks, pos).k = "Identifier" ->
            ReturnTypeEnd(toks, IdentType(Peek(toks, pos), pos + 1))
      [] IsKey(Peek(toks, pos), "ParenOpen") ->
            ReturnTypeEnd(toks, parse_param_type(toks, pos + 1, <<>>))
      [] IsKey(Peek(toks, pos), "ListOpen") ->
            ReturnTypeEnd(toks, ListOf(parse_list_type(toks, pos + 1)))
      [] OTHER -> PErr("GotButExpected", Peek(toks, pos))

\* self.returns = returns?
Returning(self, returns) ==
    IF ~returns.ok THEN returns
    ELSE POk([self EXCEPT !.returns = returns.ent], returns.pos)

\* function.rs:316-322
with_return(toks, pos, self) ==
    Returning(self, parse_return_type(toks, pos))

\* self.parameter_types.push(ty?), then the next turn of the loop
TypesPush(toks, self, ty) ==
    IF ~ty.ok THEN ty
    ELSE with_parameter_types(toks, ty.pos,
                              [self EXCEPT !.parameter_types = Append(@, ty.ent)])

\* function.rs:141-180; called after the `(`
with_parameter_types(toks, pos, self) ==
    CASE Peek(toks, pos).k = "Eof" -> PErr("EndedWhileExpecting", "parameter type")
      [] Peek(toks, pos).k = "Identifier" ->
            TypesPush(toks, self, IdentType(Peek(toks, pos), pos + 1))
      [] IsKey(Peek(toks, pos), "ListOpen") ->
            TypesPush(toks, self, ListOf(parse_list_type(toks, pos + 1)))
      [] IsKey(Peek(toks, pos), "ParenOpen") ->
            TypesPush(toks, self, parse_param_type(toks, pos + 1, <<>>))
      [] IsKey(Peek(toks, pos), "ParenClose") ->
            IF Len(self.parameter_types) = 1
            THEN IF Len(self.parameter_names) # 0
                 THEN PErr("panic", "assertion failed")
                 ELSE POk([self EXCEPT !.returns = self.parameter_types[1],
                                       !.parameter_types = <<>>], pos + 1)
            ELSE with_parameter_types(toks, pos + 1, self)
      [] IsKey(Peek(toks, pos), "Arrow") -> with_return(toks, pos + 1, self)
      [] OTHER -> PErr("GotButExpected", Peek(toks, pos))

\* function.rs:94-128
with_parameter_names(toks, pos, self) ==
    LET next == Peek(toks, pos) IN
    CASE next.k = "Eof" -> PErr("EndedWhileExpecting", "parameter name")
      [] next.k = "NewLine" -> POk(self, pos + 1)
      [] next.k = "Identifier" ->
            with_parameter_names(toks, pos + 1,
                                 [self EXCEPT !.parameter_names = Append(@, next.name)])
      [] IsKey(next, "ParenOpen") -> with_parameter_types(toks, pos + 1, self)
      [] OTHER -> PErr("GotButExpected", next)

\* function.rs:55-91
with_header(toks, pos) ==
    CASE Peek(toks, pos).k = "Eof" -> PErr("EndedWhileExpecting", "function name")
      [] Peek(toks, pos).k = "Identifier" ->
            IF Peek(toks, pos).path # <<>> THEN PErr("panic", "Path in function name")
            ELSE with_parameter_names(toks, pos + 1,
                                      FunctionBuilder(IdentOf(Peek(toks, pos))))
      [] OTHER -> PErr("GotButExpected", Peek(toks, pos))

\* ------------------------------------------------------------------------
\* The chunks handed to the parser
\* ------------------------------------------------------------------------
\* the tokens of which every arrangement up to MaxTokens is parsed
Alphabet == {RtInlined(1), RtIdent("x"), RtOperator("+"), RtKey("ParenOpen"),
             RtKey("ParenClose"), RtKey("Lambda"), RtKey("Arrow"), RtKey("Pipe")}

\* the conditions and branch values of the if expressions that are parsed
Atoms == {<<RtInlined(1)>>, <<RtIdent("x")>>, <<RtIdent("f"), RtInlined(1)>>,
          <<RtIdent("x"), RtOperator("+"), RtInlined(1)>>}
ElseAtoms == Atoms \cup {<<RtKey("If"), RtIdent("x"), RtKey("Then"), RtInlined(1),
                          RtKey("Else"), RtInlined(2)>>}

\* `c1 then e1 elif c2 then e2 ... cn then en else`, from pair i on; nl puts
\* every keyword on a line of its own
RECURSIVE IfPairTokens(_, _, _, _)
IfPairTokens(conds, evals, nl, i) ==
    LET sep == IF nl THEN <<RtNewLine>> ELSE <<>> IN
    IF i > Len(conds) THEN <<>>
    ELSE conds[i] \o sep \o <<RtKey("Then")>> \o evals[i] \o sep
         \o <<RtKey(IF i < Len(conds) THEN "Elif" ELSE "Else")>>
         \o IfPairTokens(conds, evals, nl, i + 1)

IfTokensOf(c) == <<RtKey("If")>> \o IfPairTokens(c.conds, c.evals, c.nl, 1) \o c.els

Without(s, d) == SubSeq(s, 1, d - 1) \o SubSeq(s, d + 1, Len(s))

IfChunks ==
    UNION {[form : {"if"}, conds : [1..n -> Atoms], evals : [1..n -> Atoms],
            els : ElseAtoms, nl : BOOLEAN] : n \in 1..(MaxElif + 1)}

\* an if expression of one branch with its d-th token left out
CutChunks ==
    UNION {{[form |-> "cut", of |-> c, d |-> d] : d \in 1..Len(IfTokensOf(c))} :
        c \in {i \in IfChunks : Len(i.conds) = 1 /\ ~i.nl /\ i.els \in Atoms}}

\* `x1 and x2 ... and xn then`, from statement i on
RECURSIVE FirstStmtTokens(_, _, _)
FirstStmtTokens(stmts, nl, i) ==
    LET sep == IF nl THEN <<RtNewLine>> ELSE <<>> IN
    IF i > Len(stmts) THEN <<>>
    ELSE stmts[i] \o sep \o <<RtKey(IF i < Len(stmts) THEN "And" ELSE "Then")>>
         \o FirstStmtTokens(stmts, nl, i + 1)

FirstTokensOf(c) == <<RtKey("First")>> \o FirstStmtTokens(c.stmts, c.nl, 1) \o c.val

FirstChunks ==
    UNION {[form : {"first"}, stmts : [1..n -> Atoms], val : Atoms, nl : BOOLEAN] :
              n \in 1..(MaxAnd + 1)}

\* the operands and operators of the operator chains that are parsed
Operands == {<<RtInlined(1)>>, <<RtIdent("x")>>, <<RtIdent("f"), RtInlined(1)>>,
             <<RtKey("ParenOpen"), RtInlined(2), RtKey("ParenClose")>>}
Operators == {"+", "*", "-"}

\* `a1 op1 a2 op2 ... an`, from operand i on
RECURSIVE OpsTokensFrom(_, _)
OpsTokensFrom(c, i) ==
    IF i > Len(c.ops) THEN c.vals[i]
    ELSE c.vals[i] \o <<RtOperator(c.ops[i])>> \o OpsTokensFrom(c, i + 1)

OpsChunks ==
    UNION {[form : {"ops"}, vals : [1..(n + 1) -> Operands], ops : [1..n -> Operators]] :
              n \in 1..MaxOps}

\* what is written after a pipe
PipeRests == {<<RtIdent("g"), RtIdent("y")>>, <<RtInlined(1)>>,
              <<RtIdent("g"), RtIdent("y"), RtOperator("+"), RtInlined(1)>>,
              <<RtKey("Lambda"), RtKey("Arrow"), RtInlined(1)>>,
              <<RtIdent("g"), RtIdent("y"), RtKey("Pipe"), RtIdent("h"), RtInlined(1)>>}

\* `f a1 .. an | rest`
PipeChunks ==
    UNION {[form : {"pipe"}, args : [1..n -> {RtInlined(1), RtIdent("x")}], rest : PipeRests] :
              n \in 0..MaxArgs}

PipeTokensOf(c) == <<RtIdent("f")>> \o c.args \o <<RtKey("Pipe")>> \o c.rest

\* `f a1 .. an ( rest )`
PipeAsParen(c) ==
    <<RtIdent("f")>> \o c.args \o <<RtKey("ParenOpen")>> \o c.rest \o <<RtKey("ParenClose")>>

\* the names the fields of a record literal are written with, in order
FieldNames == <<"a", "b", "c", "d">>

\* `name1 e1 , name2 e2 , ... }`, from field i on
RECURSIVE FieldTokens(_, _)
FieldTokens(vals, i) ==
    <<RtIdent(FieldNames[i])>> \o vals[i]
    \o (IF i < Len(vals) THEN <<RtKey("Comma")>> \o FieldTokens(vals, i + 1)
        ELSE <<RtKey("RecordClose")>>)

\* `{ point . name1 e1 , ... }`
RecordTokensOf(c) ==
    <<RtKey("RecordOpen"), RtIdent("point"), RtKey("Dot")>> \o FieldTokens(c.vals, 1)

RecordChunks ==
    UNION {[form : {"record"},
            vals : [1..n -> {<<RtInlined(1)>>, <<RtInlined(2)>>, <<RtIdent("x")>>}]] :
              n \in 1..MaxFields}

\* what is written after a `#`: kind says how it was written, paren whether it
\* stands between parentheses
ClosureTarget(kind, paren, inner) == [kind |-> kind, paren |-> paren, inner |-> inner]
ClosureTargets ==
    {ClosureTarget("literal", p, <<RtInlined(1)>>) : p \in BOOLEAN}
    \cup {ClosureTarget("identifier", p, <<RtIdent("x")>>) : p \in BOOLEAN}
    \cup {ClosureTarget("identifier", FALSE, <<RtOperator("+")>>)}
    \cup {ClosureTarget("call", TRUE, t) :
             t \in {<<RtIdent("g"), RtInlined(1)>>,
                    <<RtInlined(1), RtOperator("+"), RtInlined(2)>>,
                    <<RtIdent("g"), RtKey("ParenOpen"), RtIdent("h"), RtInlined(1),
                      RtKey("ParenClose")>>}}
    \cup {ClosureTarget("lambda", TRUE, t) :
             t \in {<<RtKey("Lambda"), RtIdent("y"), RtKey("Arrow"), RtIdent("y")>>,
                    <<RtKey("Lambda"), RtKey("Arrow"), RtInlined(1)>>}}
    \cup {ClosureTarget("entity", TRUE, t) :
             t \in {<<RtKey("If"), RtIdent("x"), RtKey("Then"), RtInlined(1),
                      RtKey("Else"), RtInlined(2)>>,
                    <<RtKey("First"), RtIdent("x"), RtKey("Then"), RtInlined(1)>>,
                    <<RtKey("ListOpen"), RtInlined(1), RtKey("ListClose")>>,
                    <<RtKey("ListOpen"), RtKey("ListClose")>>,
                    <<RtKey("RecordOpen"), RtIdent("point"), RtKey("Dot"), RtIdent("a"),
                      RtInlined(1), RtKey("RecordClose")>>,
                    <<RtKey("PrimitiveUnimplemented")>>}}
    \cup {ClosureTarget("token", FALSE, <<t>>) :
             t \in {RtKey("ParenClose"), RtKey("Arrow"), RtKey("Pipe"), RtKey("Lambda"),
                    RtKey("ListOpen"), RtKey("RecordOpen"), RtKey("ClosureMarker"),
                    RtKey("Then"), RtKey("If"), RtNewLine}}

\* `f pre # target post`
ClosureChunks ==
    [form : {"closure"}, pre : {<<>>, <<RtInlined(1)>>}, target : ClosureTargets,
     post : {<<>>, <<RtInlined(2)>>}]

ClosureTokensOf(c) ==
    <<RtIdent("f")>> \o c.pre \o <<RtKey("ClosureMarker")>>
    \o (IF c.target.paren
        THEN <<RtKey("ParenOpen")>> \o c.target.inner \o <<RtKey("ParenClose")>>
        ELSE c.target.inner)
    \o c.post

\* `\p1 .. pn -> body | arg`, nl putting the pipe on a line of its own
LambdaBodies == {<<RtInlined(1)>>, <<RtIdent("x")>>, <<RtIdent("f"), RtIdent("x")>>,
                 <<RtInlined(1), RtOperator("+"), RtInlined(2)>>,
                 <<RtKey("ParenOpen"), RtIdent("f"), RtIdent("x"), RtKey("ParenClose")>>}
LambdaPipeChunks ==
    UNION {[form : {"lambda"}, params : [1..n -> {RtIdent("x"), RtIdent("y")}],
            body : LambdaBodies, nl : BOOLEAN,
            arg : {<<RtInlined(3)>>, <<RtIdent("g"), RtIdent("z")>>}] : n \in 0..MaxArgs}

LambdaPipeTokensOf(c) ==
    <<RtKey("Lambda")>> \o c.params \o <<RtKey("Arrow")>> \o c.body
    \o (IF c.nl THEN <<RtNewLine>> ELSE <<>>) \o <<RtKey("Pipe")>> \o c.arg

\* `[ e1 , .. , en ]`
ListElements == {<<RtInlined(1)>>, <<RtIdent("x")>>, <<RtIdent("f"), RtIdent("x")>>,
                 <<RtInlined(1), RtOperator("+"), RtInlined(2)>>,
                 <<RtKey("ParenOpen"), RtIdent("f"), RtIdent("x"), RtKey("ParenClose")>>}
ListChunks == UNION {[form : {"list"}, entries : [1..n -> ListElements]] : n \in 0..MaxEntries}

RECURSIVE ListEntryTokens(_, _)
ListEntryTokens(entries, i) ==
    IF i > Len(entries) THEN <<>>
    ELSE entries[i] \o (IF i < Len(entries) THEN <<RtKey("Comma")>> ELSE <<>>)
         \o ListEntryTokens(entries, i + 1)

ListTokensOf(c) ==
    <<RtKey("ListOpen")>> \o ListEntryTokens(c.entries, 1) \o <<RtKey("ListClose")>>

\* headers `f p1 .. pk`, then no signature, `( r )` or `( t1 .. tn -> r )`
TypeTokens == {<<RtIdent("int")>>, <<RtIdent("a")>>,
               <<RtKey("ListOpen"), RtIdent("int"), RtKey("ListClose")>>,
               <<RtKey("ParenOpen"), RtIdent("int"), RtKey("Arrow"), RtIdent("bool"),
                 RtKey("ParenClose")>>}
Signatures ==
    {[sig |-> "none"]} \cup {[sig |-> "returns", r |-> r] : r \in TypeTokens}
    \cup UNION {[sig : {"arrow"}, ts : [1..n -> TypeTokens], r : TypeTokens] : n \in 0..MaxParams}
HeaderChunks ==
    UNION {[form : {"header"}, names : [1..k -> {RtIdent("p"), RtIdent("q")}],
            signature : Signatures] : k \in 0..MaxParams}

RECURSIVE Flatten(_, _)
Flatten(seqs, i) == IF i > Len(seqs) THEN <<>> ELSE seqs[i] \o Flatten(seqs, i + 1)

HeaderTokensOf(c) ==
    <<RtIdent("f")>> \o c.names
    \o CASE c.signature.sig = "none" -> <<RtNewLine>>
         [] c.signature.sig = "returns" ->
               <<RtKey("ParenOpen")>> \o c.signature.r \o <<RtKey("ParenClose")>>
         [] c.signature.sig = "arrow" ->
               <<RtKey("ParenOpen")>> \o Flatten(c.signature.ts, 1) \o <<RtKey("Arrow")>>
               \o c.signature.r \o <<RtKey("ParenClose")>>

Chunks ==
    {[form |-> "tokens", toks |-> t] : t \in UNION {[1..n -> Alphabet] : n \in 0..MaxTokens}}
    \cup IfChunks \cup CutChunks \cup FirstChunks \cup OpsChunks
    \cup PipeChunks \cup RecordChunks \cup ClosureChunks \cup LambdaPipeChunks
    \cup ListChunks \cup HeaderChunks

TokensOf(c) ==
    CASE c.form = "tokens" -> c.toks
      [] c.form = "if" -> IfTokensOf(c)
      [] c.form = "cut" -> Without(IfTokensOf(c.of), c.d)
      [] c.form = "first" -> FirstTokensOf(c)
      [] c.form = "ops" -> OpsTokensFrom(c, 1)
      [] c.form = "pipe" -> PipeTokensOf(c)
      [] c.form = "record" -> RecordTokensOf(c)
      [] c.form = "closure" -> ClosureTokensOf(c)
      [] c.form = "lambda" -> LambdaPipeTokensOf(c)
      [] c.form = "list" -> ListTokensOf(c)
      [] c.form = "header" -> HeaderTokensOf(c)

ParseFrame == UNCHANGED <<prog, input, status, instructions, stack, retval, result,
                          callDepth, job, answer, chunk, tokens>>

\* AstBuilder::run_chunk on a fresh tokenizer over the tokens
RunChunk ==
    /\ parsed = None /\ chunk.form # "header"
    /\ parsed' = run_chunk(tokens, 1)
    /\ ParseFrame

\* FunctionBuilder::new().with_header on a tokenizer that stands after `fn`
WithHeader ==
    /\ parsed = None /\ chunk.form = "header"
    /\ parsed' = with_header(tokens, 1)
    /\ ParseFrame

InitParse ==
    /\ chunk \in Chunks
    /\ tokens = TokensOf(chunk)
    /\ parsed = None
    /\ prog = "none" /\ input = <<>> /\ status = "idle" /\ instructions = <<>>
    /\ stack = <<>> /\ retval = None /\ result = None /\ callDepth = <<>>
    /\ job = None /\ answer = None

NextParse == RunChunk \/ WithHeader

SpecParse == InitParse /\ [][NextParse]_vars

\* ------------------------------------------------------------------------
\* Claims about the parser
\* ------------------------------------------------------------------------
\* run_chunk read the whole token stream as one expression
WellFormed ==
    /\ parsed # None /\ chunk.form # "header"
    /\ parsed.ok /\ parsed.pos = Len(tokens) + 1

Parenthesised(toks) == <<RtKey("ParenOpen")>> \o toks \o <<RtKey("ParenClose")>>

Alone(atom) == run_chunk(atom, 1).ent

\* the branches the chunk was written with
WrittenBranches(c) ==
    [i \in 1..Len(c.conds) |-> [cond |-> Alone(c.conds[i]), eval |-> Alone(c.evals[i])]]

RECURSIVE IfsHaveBranches(_)
\* every If inside the entity has at least one branch and an else
IfsHaveBranches(ent) ==
    LET All(es) == \A i \in 1..Len(es) : IfsHaveBranches(es[i]) IN
    CASE ent.e = "If" ->
            /\ Len(ent.branches) >= 1
            /\ \A i \in 1..Len(ent.branches) :
                  IfsHaveBranches(ent.branches[i].cond) /\ IfsHaveBranches(ent.branches[i].eval)
            /\ "els" \in DOMAIN ent /\ IfsHaveBranches(ent.els)
      [] ent.e = "Call" ->
            /\ All(ent.params)
            /\ ent.callable.c = "Lambda" => IfsHaveBranches(ent.callable.body)
      [] ent.e = "Lambda" -> IfsHaveBranches(ent.body)
      [] ent.e = "First" -> All(ent.stmts)
      [] ent.e = "List" -> All(ent.entries)
      [] OTHER -> TRUE

\* C10: `if c1 then e1 (elif ci then ei)* else e` parses to an If whose branches
\* are exactly the n written (ci, ei) pairs in order and whose else is e; every
\* If the parser returns has at least one branch and an else.
C10_IfBranches ==
    /\ (parsed # None /\ chunk.form = "if") =>
            parsed = POk(AstIf(WrittenBranches(chunk), Alone(chunk.els)), Len(tokens) + 1)
    /\ (parsed # None /\ chunk.form # "header" /\ parsed.ok) => IfsHaveBranches(parsed.ent)

\* an if with an elif branch, written over several lines, was parsed
C10_Witness ==
    /\ parsed # None /\ parsed.ok
    /\ chunk.form = "if" /\ chunk.nl /\ Len(chunk.conds) = 2
    /\ chunk.conds[1] # chunk.conds[2]
    /\ parsed.ent.e = "If" /\ Len(parsed.ent.branches) = 2

\* C11: `first x1 and ... and xn then z` parses to a First whose entries are
\* x1..xn in the order written, followed by z as the last entry (the value).
C11_FirstEntries ==
    (parsed # None /\ chunk.form = "first") =>
        parsed = POk(AstFirst([i \in 1..Len(chunk.stmts) |-> Alone(chunk.stmts[i])]
                              \o <<Alone(chunk.val)>>), Len(tokens) + 1)

\* `first x and y then z` with different x, y and z was parsed
C11_Witness ==
    /\ parsed # None /\ parsed.ok
    /\ chunk.form = "first" /\ Len(chunk.stmts) = 2
    /\ chunk.stmts[1] # chunk.stmts[2] /\ chunk.val \notin {chunk.stmts[1], chunk.stmts[2]}
    /\ parsed.ent.e = "First" /\ Len(parsed.ent.stmts) = 3

\* a1 op1 (a2 op2 (... an)), from operand i on
RECURSIVE RightNested(_, _)
RightNested(c, i) ==
    IF i > Len(c.ops) THEN Alone(c.vals[i])
    ELSE AstCall(CallFunc(IdentOf(RtOperator(c.ops[i]))),
                 <<Alone(c.vals[i]), RightNested(c, i + 1)>>)

\* C12: binary operators parse right-associatively with one precedence:
\* `a op1 b op2 c` parses to Call(op1, [a, Call(op2, [b, c])]) whichever
\* operators op1 and op2 are.
C12_RightAssociative ==
    (parsed # None /\ chunk.form = "ops") =>
        parsed = POk(RightNested(chunk, 1), Len(tokens) + 1)

\* `a op1 b op2 c` with two different operators was parsed
C12_Witness ==
    /\ parsed # None /\ parsed.ok
    /\ chunk.form = "ops" /\ Len(chunk.ops) = 2 /\ chunk.ops[1] = "*" /\ chunk.ops[2] = "+"
    /\ parsed.ent.e = "Call" /\ parsed.ent.callable.ident.name = "*"
    /\ parsed.ent.params[2].e = "Call" /\ parsed.ent.params[2].callable.ident.name = "+"

\* C13: a pipe takes the rest of the chunk as one last argument, as if it were
\* parenthesised: `f x | g y` and `f x (g y)` both parse to Call(f, [x, Call(g, [y])]).
C13_PipeIsParen ==
    (parsed # None /\ chunk.form = "pipe") =>
        /\ parsed = POk(AstCall(CallFunc(IdentOf(RtIdent("f"))),
                                [i \in 1..Len(chunk.args) |-> Alone(<<chunk.args[i]>>)]
                                \o <<Alone(chunk.rest)>>), Len(tokens) + 1)
        /\ run_chunk(PipeAsParen(chunk), 1) = POk(parsed.ent, Len(tokens) + 2)

\* `f x | g y` was parsed
C13_Witness ==
    /\ parsed # None /\ parsed.ok
    /\ chunk.form = "pipe" /\ chunk.args = <<RtIdent("x")>>
    /\ chunk.rest = <<RtIdent("g"), RtIdent("y")>>
    /\ Len(parsed.ent.params) = 2 /\ parsed.ent.params[2].e = "Call"

\* C14: a record literal's field list keeps the order of declaration: fields
\* f1 e1, f2 e2, ..., fn en parse to Record(name, [(f1, e1), ..., (fn, en)]).
C14_RecordFieldOrder ==
    (parsed # None /\ chunk.form = "record") =>
        parsed = POk(AstRecord(IdentOf(RtIdent("point")),
                               [i \in 1..Len(chunk.vals) |->
                                   [name |-> FieldNames[i], value |-> Alone(chunk.vals[i])]]),
                     Len(tokens) + 1)

\* C15: the module of an import identifier p1:..:pk:n (k >= 0) is looked for
\* as p1/../pk/n.lf below the entry file's directory first and below
\* <LEAFPATH>/modules second: the project file gives Project([p1..pk, n]) even
\* if the leaf-path file exists too, the leaf-path file alone gives
\* Leafpath([p1..pk, n]), and with neither the load fails.
C15_ModuleDiscovery ==
    Answered("discover") =>
        LET levels == Append(job.ident.path, job.ident.name) IN
        IF ProjectFile(job.ident) \in job.files THEN answer = Project(levels)
        ELSE IF LeafFile(job.ident) \in job.files THEN answer = Leafpath(levels)
        ELSE ~answer.ok

\* ------------------------------------------------------------------------
\* Further claims about the evaluator
\* ------------------------------------------------------------------------
\* C16: ParameterCall and CapturedCall are tail-eliminated: once the arguments
\* are evaluated the frame itself continues with the function value's body, so
\* no run activation whose entity is such a call is left waiting below the
\* activation that evaluates the body.
C16_CallsTailEliminated ==
    \A j \in 1..Len(stack) :
        (stack[j].fn = "run" /\ stack[j].entity.k \in {"ParameterCall", "CapturedCall"})
            => stack[j].pc # "tail"

\* the run activations that are at a FunctionCall
CallFrames == {j \in 1..Len(stack) : stack[j].fn = "run" /\ stack[j].entity.k = "FunctionCall"}

\* how many arguments of the call at frame j have been started
ArgsStarted(j) ==
    Len(stack[j].buf) + (IF j < Len(stack) \/ retval # None THEN 1 ELSE 0)

\* the arguments started so far are the first ones of the call, in order, each
\* on the params and captured the frame has had since it reached the call
ArgsInOrder(j) ==
    LET f == stack[j]
        k == ArgsStarted(j)
    IN /\ k <= Len(f.entity.args) /\ k <= Len(f.launched)
       /\ \A m \in 1..k :
             f.launched[Len(f.launched) - k + m] = Launch(f.entity.args[m], f.params, f.captured)

AtCall == Running /\ Top.fn = "run" /\ Top.entity.k = "FunctionCall" /\ Top.pc = "loop"

\* C17: FunctionCall(fid, args) evaluates every argument, in order, against the
\* params and captured the frame had when it reached the call, never against a
\* partly replaced buffer; then the frame's params become exactly the results,
\* its entity becomes instructions[fid], and it continues without a new frame.
C17_FunctionCall ==
    /\ [](\A j \in CallFrames : ArgsInOrder(j))
    /\ [][(AtCall /\ retval # None) =>
             /\ Len(stack') = Len(stack)
             /\ Top' = [Top EXCEPT !.buf = Append(Top.buf, retval)]]_vars
    /\ [][(AtCall /\ retval = None /\ Len(Top.buf) = Len(Top.entity.args)) =>
             /\ Len(stack') = Len(stack)
             /\ Top'.params = Top.buf
             /\ Top'.captured = Top.captured
             /\ Top'.entity = instructions[Top.entity.idx + 1]]_vars

\* seq was entered by a call that swaps the two parameters
C17_Witness ==
    /\ prog = "seq" /\ Running /\ Len(stack) = 1
    /\ Top.entity = instructions[1]
    /\ Top.p0 = input /\ input[1] # input[2]
    /\ Top.params = <<input[2], input[1]>>

IfFrames == {j \in 1..Len(stack) : stack[j].fn = "if_expression"}

\* what the if_expression activation f has started so far: the conditions in
\* order, then, once it has chosen, the one body it chose
IfInOrder(f) ==
    LET branches == f.entity.branches
        n == Len(f.launched)
        conds == IF f.pc = "tail" THEN n - 1 ELSE n
    IN /\ f.i <= Len(branches) /\ conds <= Len(branches)
       /\ f.params = f.p0 /\ f.captured = f.c0
       /\ \A m \in 1..conds : f.launched[m] = Launch(branches[m].cond, f.p0, f.c0)
       /\ f.pc = "loop" => (f.i <= n /\ n <= f.i + 1)
       /\ f.pc = "tail" =>
             \/ conds = f.i + 1 /\ f.launched[n] = Launch(branches[f.i + 1].eval, f.p0, f.c0)
             \/ conds = f.i /\ f.i = Len(branches)
                  /\ f.launched[n] = Launch(f.entity.els, f.p0, f.c0)

IfCondBack == InHandler("if_expression") /\ Top.pc = "loop" /\ retval # None

\* C18: an If tests its conditions in order; the first that yields Bool(true)
\* selects its branch and no later condition is evaluated; if none does the
\* else body is evaluated; exactly one body is evaluated, on the params and
\* captured the frame was entered with.
C18_IfEvaluation ==
    /\ [](\A j \in IfFrames : IfInOrder(stack[j]))
    /\ [][IfCondBack =>
             IF retval = VBool(TRUE)
             THEN /\ Len(stack') = Len(stack) + 1
                  /\ stack'[Len(stack)].pc = "tail"
                  /\ stack'[Len(stack')].entity = Top.entity.branches[Top.i + 1].eval
             ELSE /\ Len(stack') = Len(stack)
                  /\ Top'.pc = "loop" /\ Top'.i = Top.i + 1]_vars
    /\ []((prog = "choose" /\ status = "done") =>
             result = IF input[1] = VBool(TRUE) THEN VInt(1)
                      ELSE IF input[2] = VBool(TRUE) THEN VInt(2) ELSE VInt(3))

\* the second branch of choose was selected after the first condition failed
C18_Witness ==
    /\ prog = "choose" /\ Running /\ Len(stack) >= 2
    /\ stack[2].fn = "if_expression" /\ stack[2].pc = "tail" /\ stack[2].i = 1
    /\ Len(stack[2].launched) = 3
    /\ stack[2].launched[3].entity = Inlined(VInt(2))

ListFrames == {j \in 1..Len(stack) : stack[j].fn = "list"}

\* C19: a List node of n >= 0 entries evaluates to Value::List of exactly n
\* values, the i-th the value of the i-th entry under the frame's params and
\* captured; the empty list evaluates to the empty list without a fault.
C19_ListEvaluation ==
    /\ \A j \in ListFrames :
          LET f == stack[j] IN
          /\ Len(f.launched) <= Len(f.entity.args)
          /\ \A m \in 1..Len(f.launched) : f.launched[m] = Launch(f.entity.args[m], f.p0, f.c0)
    /\ (prog = "nil" /\ status \notin {"link", "run"})
          => (status = "done" /\ result = VList(<<>>))

\* C20: a sub-frame runs on clones: starting it leaves the spawning frame's
\* params and captured as they are, nothing changes them while the sub-frame
\* runs, and when it has finished they are what they were before the spawn.
C20_SpawnClones ==
    [][\A j \in 1..Len(stack) :
          (j <= Len(stack') /\ (j < Len(stack) \/ Len(stack') > Len(stack))) =>
              /\ stack'[j].params = stack[j].params
              /\ stack'[j].captured = stack[j].captured]_vars

\* both fields of the record have been evaluated in sub-frames, the first of
\* them reading the parameter
C20_Witness ==
    /\ prog = "record" /\ Running
    /\ Top.fn = "record" /\ Len(Top.buf) = 2 /\ retval = None
    /\ Top.params = input /\ Top.buf[1] = input[1]

\* ------------------------------------------------------------------------
\* Closures
\* ------------------------------------------------------------------------
AtLambdaPointer == InRun("LambdaPointer")

\* the copies a LambdaPointer takes of the frame's parameters, in to_capture order
Snapshot(f) ==
    [m \in 1..Len(f.entity.to_capture) |-> f.params[f.entity.to_capture[m].n + 1]]

\* the frame is about to call the closure value f
AtClosureCall(kind) ==
    /\ Running /\ retval = None
    /\ Top.fn = "run" /\ Top.pc = "loop" /\ Top.entity.k = kind
    /\ Len(Top.buf) = Len(Top.entity.args)

\* the closure f is started by the step: its inner entity on its own captures
RunsClosure(f) ==
    /\ Len(stack') = Len(stack) + 1
    /\ stack'[Len(stack')].entity = f.body
    /\ stack'[Len(stack')].captured = f.captured
    /\ stack'[Len(stack')].params = Top.buf

\* C21: LambdaPointer(inner, to_capture) with ParentParam captures returns
\* Value::Function(inner, captures), captures[i] a copy of the parameter that
\* to_capture[i] names at that moment; no frame's captured values change while
\* it runs, and calling the closure runs inner with exactly those captures.
C21_LambdaPointer ==
    /\ [][AtLambdaPointer =>
             /\ retval' = VFunction(Top.entity.inner, Snapshot(Top))
             /\ Len(retval'.captured) = Len(Top.entity.to_capture)
             /\ stack' = Front(stack)]_vars
    /\ [](\A j \in 1..Len(stack) : stack[j].captured = stack[j].c0)
    /\ [][AtClosureCall("ParameterCall") => RunsClosure(Top.params[Top.entity.idx + 1])]_vars
    /\ [][AtClosureCall("CapturedCall") => RunsClosure(Top.captured[Top.entity.idx + 1])]_vars
    /\ []((prog = "capture" /\ status = "done") => result = VInt(input[1].v + 1))
    /\ []((prog = "twice" /\ status = "done") => result = VInt(input[1].v + 20))

\* the closure built in the entry frame ran inside apply, whose first
\* parameter is the closure itself, and still added the captured input
C21_Witness ==
    /\ prog = "capture" /\ status = "done"
    /\ input[1] = VInt(2) /\ result = VInt(3)

\* ------------------------------------------------------------------------
\* Further claims about the type checker
\* ------------------------------------------------------------------------
\* the module a lookup searches, -1 when the qualifier is not imported
SearchedFid(self_fid, ident) ==
    IF Len(ident) = 1 THEN self_fid
    ELSE IF ident[1] \in DOMAIN Module(self_fid).imports
         THEN Module(self_fid).imports[ident[1]] ELSE -1

\* C22: prelude fallback: for every lookup, qualified or not, where the module
\* searched has no entry for the name and the current module is not the
\* prelude, the lookup is retried in the prelude before any FunctionNotFound
\* is reported; a lookup that already runs in the prelude is not retried.
C22_PreludeFallback ==
    Answered("find_matching_function") =>
        LET fid == SearchedFid(job.self_fid, job.ident)
            name == job.ident[Len(job.ident)]
            prelude == Module(PRELUDE_FID).function_ids
        IN (fid # -1 /\ name \notin DOMAIN Module(fid).function_ids) =>
              IF job.self_fid = PRELUDE_FID
              THEN answer = FunctionNotFound(name, PRELUDE_FID)
              ELSE IF name \in DOMAIN prelude
                   THEN answer \in match_variants(prelude[name], job.params, name, PRELUDE_FID)
                   ELSE ~answer.ok /\ answer.err = "FunctionNotFound"

\* the first entry whose type is not the type of entry 0 (1-based), 0 if none
FirstDiffering(types) ==
    LET differing == {j \in 1..Len(types) : types[j] # types[1]} IN
    IF differing = {} THEN 0
    ELSE CHOOSE j \in differing : \A m \in differing : j <= m

\* C23: a list literal whose entries all have type T has type List(T); if
\* entry i is the first whose type differs from that of entry 0 the result is
\* ListEntryTypeMismatch(type of entry i, type of entry 0, i) at that entry;
\* the empty list has type List(Generic(0)).
C23_ListTypeCheck ==
    (Answered("type_check") /\ job.token.k = "List") =>
        LET entries == job.token.entries
            types == [j \in 1..Len(entries) |-> type_check(entries[j], MainSource)]
            i == FirstDiffering(types)
        IN (\A j \in 1..Len(entries) : types[j].ok) =>
              IF entries = <<>> THEN answer = Ok(TList(TGeneric(0)))
              ELSE IF i = 0 THEN answer = Ok(TList(types[1].ty))
              ELSE /\ ~answer.ok /\ answer.err = "ListEntryTypeMismatch"
                   /\ answer.got = types[i].ty /\ answer.want = types[1].ty
                   /\ answer.index = i - 1 /\ answer.at = entries[i]

\* [1, 2, 2.0]: the third entry is the first that is not an Int
C23_Witness ==
    /\ Answered("type_check")
    /\ job.token = TkList(<<TkInlined("Int"), TkInlined("Int"), TkInlined("Float")>>)
    /\ answer = to_err(ListEntryTypeMismatch(TFloat, TInt, 2), TkInlined("Float"))

\* C24: recursion guard: whenever type_check is re-entered on a call whose
\* parameter-type cell is borrowed, be the outer check still gathering the
\* argument types or already resolving the callee, it returns the callee's
\* declared return type from find_return_type on the cached types, without a
\* fault, so checking a directly self-recursive body terminates.
C24_RecursionGuard ==
    Answered("type_check_function") =>
        /\ \A j \in 1..Len(answer.st.seen) :
              LET e == answer.st.seen[j] IN
              /\ e.r.ok
              /\ e.r = find_return_type(MainSource.fid, e.types, e.entry)
        /\ answer.r.ok \/ answer.r.err # "panic"

\* C29: find_return_type agrees with find_matching_function: for every module,
\* callee identifier and parameter types for which find_matching_function
\* succeeds, by exact match, by generic unification or through the prelude,
\* find_return_type returns the declared return type of that resolved function
\* and does not fault.
C29_ReturnTypeAgrees ==
    Answered("find_return_type") =>
        \A a \in find_matching_function(job.self_fid, job.ident, job.params) :
            a.ok => answer = Ok(Module(a.fid).functions[a.funcid + 1].returns)

\* ------------------------------------------------------------------------
\* Further claims about the parser
\* ------------------------------------------------------------------------
\* the arguments of `f pre # target post` when the target is passed as p
ClosureArgs(c, p) ==
    [i \in 1..Len(c.pre) |-> Alone(<<c.pre[i]>>)] \o <<AstPass(p)>>
    \o [i \in 1..Len(c.post) |-> Alone(<<c.post[i]>>)]

PassedAs(c, p) ==
    parsed = POk(AstCall(CallFunc(IdentOf(RtIdent("f"))), ClosureArgs(c, p)), Len(tokens) + 1)

\* C25: closure conversion: `#` before an inline literal, a bare identifier or
\* a parenthesised literal / identifier / call / lambda gives Pass(Value | Func
\* | PartialFunc | Lambda) respectively; `#(e)` for any other entity e fails
\* with InvalidClosure(e) and `#` before any other token with InvalidClosureT;
\* no Pass holds another form.
C25_ClosureConversion ==
    (parsed # None /\ chunk.form = "closure") =>
        LET t == chunk.target
            e == Alone(t.inner)
        IN /\ CASE t.kind = "literal" -> PassedAs(chunk, PassValue(t.inner[1].v))
                [] t.kind = "identifier" -> PassedAs(chunk, PassFunc(IdentOf(t.inner[1])))
                [] t.kind = "call" ->
                      e.e = "Call" /\ PassedAs(chunk, PassPartialFunc(e.callable, e.params))
                [] t.kind = "lambda" ->
                      e.e = "Lambda" /\ PassedAs(chunk, PassLambda(e.params, e.body))
                [] t.kind = "entity" -> parsed = PErr("InvalidClosure", e)
                [] t.kind = "token" -> parsed = PErr("InvalidClosureT", t.inner[1])
           /\ parsed.ok =>
                 \A i \in 1..Len(parsed.ent.params) :
                    parsed.ent.params[i].e = "Pass" =>
                       parsed.ent.params[i].pass.p \in {"Value", "Func", "PartialFunc", "Lambda"}

\* `f 1 #(\y -> y) 2`: the lambda is passed between two other arguments
C25_Witness ==
    /\ parsed # None /\ parsed.ok /\ chunk.form = "closure"
    /\ chunk.target.kind = "lambda" /\ chunk.target.inner[2] = RtIdent("y")
    /\ chunk.pre # <<>> /\ chunk.post # <<>>
    /\ parsed.ent.params[2] = AstPass(PassLambda(<<IdentOf(RtIdent("y"))>>,
                                                 AstSingleIdent(IdentOf(RtIdent("y")))))

\* C26: unparenthesised pipe into a lambda: for `\p1 .. pn -> body | a`, also
\* when body ends in an identifier or a call and when newlines stand before
\* the pipe, run_chunk returns Call(Lambda([p1..pn], body), [a]): the pipe's
\* chunk is the one argument of the lambda, not an argument inside body.
C26_LambdaPipe ==
    (parsed # None /\ chunk.form = "lambda") =>
        parsed = POk(AstCall(CallLambda([i \in 1..Len(chunk.params) |-> IdentOf(chunk.params[i])],
                                        Alone(chunk.body)),
                             <<Alone(chunk.arg)>>),
                     Len(tokens) + 1)

\* C27: list literals: for any n >= 0 well-formed chunks e1..en, function
\* applications such as `f x` included, `[ e1 , .. , en ]` parses to
\* List([e1, .., en]) in order, the argument parsing of each element stopping
\* at the `,` or the `]` without consuming it.
C27_ListParsing ==
    (parsed # None /\ chunk.form = "list") =>
        parsed = POk(AstList([i \in 1..Len(chunk.entries) |-> Alone(chunk.entries[i])]),
                     Len(tokens) + 1)

\* C30: textual round trip of types: for every type t built from Nothing, Int,
\* Float, Bool, Generic(g) with 0 <= g <= 25 and List of such types,
\* Type::try_from applied to the Display rendering of t returns t, without a
\* fault (`[int]` gives List(Int), `[a]` gives List(Generic(0))).
C30_TypeRoundTrip ==
    /\ Answered("type_try_from") => answer = Ok(job.ty)
    /\ TypeDisplay(TList(TInt)) = Chars("[int]")
    /\ TypeDisplay(TList(TGeneric(0))) = Chars("[a]")

\* C28: every FunctionBuilder that with_header returns successfully has as
\* many parameter types as parameter names, whichever header form was parsed:
\* no signature, `(r)`, or `(t1 .. tn -> r)`.
C28_HeaderParamCounts ==
    (parsed # None /\ chunk.form = "header" /\ parsed.ok) =>
        Len(parsed.ent.parameter_types) = Len(parsed.ent.parameter_names)

=============================================================================
